---- MODULE Spec2Model ----
(***************************************************************************)
(* Availability search, slot selection and booking of the calendar agent   *)
(* (src/calendar_agent/calendar_tools.py), the demonstration agent of       *)
(* src/calendar_agent_a2a/agent.py, the three executors that turn an       *)
(* inbound message into a query and an agent response into message parts,  *)
(* the /api/action handler of src/orchestrator_agent/rest_server.py, and   *)
(* the UI templates of the calendar and vehicle intake prompts.            *)
(*                                                                         *)
(* Time is counted in minutes on one UTC axis whose origin is 00:00 UTC of *)
(* the day of `now`; a day is 24 * 60 minutes.  Weekdays are numbered as   *)
(* datetime.weekday() numbers them: Monday = 0 ... Sunday = 6.             *)
(***************************************************************************)
EXTENDS Integers, Sequences, FiniteSets, TLC

VARIABLES
    now,              \* [wd, tod]: weekday and minute-of-day of utcnow()
    days_ahead,       \* argument of find_available_slots
    duration_hours,   \* argument meeting_duration_hours
    calendar,         \* the provider's events, ordered by start time
    pc,               \* position of the session: start, returned, raised, booked
    events,           \* events_result['items'] as fetched
    available_slots,  \* the list being built and returned
    error,            \* the exception that ended the call, or "none"
    request,          \* body of the events().insert call, or NoRequest
    insert_calls,     \* number of events().insert calls issued
    booking,          \* the value book_appointment returned, or NoBooking
    sessions,         \* two sessions on one calendar: position, offered slots,
                      \* and the event written, of each
    agent_use_ui,     \* root_agent.use_ui of calendar_agent_a2a/agent.py
    selected_time,    \* root_agent.selected_time
    call,             \* the last call an agent or executor served: its
                      \* handler, inbound message, query and output
    served            \* the calls of root_agent.stream made under a
                      \* context_id, in order: context_id, query and the
                      \* final content of each

\* the state of the calendar tools
calendarVars == <<now, days_ahead, duration_hours, calendar, pc, events,
                  available_slots, error, request, insert_calls, booking>>

\* the state of the two concurrent sessions
sessionVars == <<sessions>>

\* the state of the agents and executors
agentVars == <<agent_use_ui, selected_time, call, served>>

vars == <<calendarVars, sessionVars, agentVars>>

-----------------------------------------------------------------------------
(* Bounds of the model *)

MaxEvents == 2
MaxDur == 2
MaxSessionEvents == 1
MaxServed == 3

-----------------------------------------------------------------------------
(* Time arithmetic *)

MinutesPerHour == 60
HoursPerDay == 24
MinutesPerDay == HoursPerDay * MinutesPerHour

\* datetime.timedelta(days = d) added to an instant
PlusDays(t, d) == t + d * MinutesPerDay

\* datetime.timedelta(hours = h) added to an instant
PlusHours(t, h) == t + h * MinutesPerHour

\* the calendar date (day index) an instant falls on
DateOf(t) == t \div MinutesPerDay

\* minute of the day of an instant
MinuteOfDay(t) == t % MinutesPerDay

\* datetime.weekday() of the date `day` days after today
Weekday(day) == (now.wd + day) % 7

\* dt.replace(hour = h) alone: the minutes of the clock reading are kept
ReplaceHourKeepMinutes(t, h) ==
    DateOf(t) * MinutesPerDay + h * MinutesPerHour + (MinuteOfDay(t) % MinutesPerHour)

\* dt.replace(hour = h, minute = 0, second = 0, microsecond = 0)
ReplaceHour(t, h) == DateOf(t) * MinutesPerDay + h * MinutesPerHour

-----------------------------------------------------------------------------
(* Calendar events as the provider returns them.  A timestamp is the value *)
(* of event['start'] / event['end']: fmt "dateTime" is an ISO string with a *)
(* UTC offset of `off` hours (local wall time `local`), fmt "date" is the   *)
(* date-only string of an all-day event, fmt "bad" is a string that         *)
(* datetime.fromisoformat rejects.                                          *)

Stamp(fmt, day, hh, mm, off) ==
    [fmt |-> fmt, local |-> day * MinutesPerDay + hh * MinutesPerHour + mm, off |-> off]

Event(s, e) == [start |-> s, end |-> e]

\* the instant the provider holds for a timestamp
InstantOf(ts) == ts.local - ts.off * MinutesPerHour

\* datetime.fromisoformat(ts.get('dateTime', ts.get('date')).replace('Z', '+00:00'))
ParseIso(ts) ==
    CASE ts.fmt = "dateTime" -> [kind |-> "aware", instant |-> InstantOf(ts)]
      [] ts.fmt = "date"     -> [kind |-> "naive", instant |-> ts.local]
      [] OTHER               -> [kind |-> "ValueError", instant |-> 0]

\* the events the model draws calendars from (day = days after today)
EventMenu ==
    { Event(Stamp("dateTime", 1, 9, 0, 0),   Stamp("dateTime", 1, 10, 0, 0)),
      Event(Stamp("dateTime", 1, 9, 30, 0),  Stamp("dateTime", 1, 10, 0, 0)),
      Event(Stamp("dateTime", 1, 8, 0, 0),   Stamp("dateTime", 1, 9, 0, 0)),
      Event(Stamp("dateTime", 1, 10, 0, 0),  Stamp("dateTime", 1, 11, 0, 0)),
      Event(Stamp("dateTime", 1, 9, 0, 0),   Stamp("dateTime", 1, 15, 0, 0)),
      Event(Stamp("dateTime", 1, 9, 0, 0),   Stamp("dateTime", 1, 16, 0, 0)),
      Event(Stamp("dateTime", 1, 9, 0, 0),   Stamp("dateTime", 1, 17, 0, 0)),
      Event(Stamp("dateTime", 1, 4, 0, -5),  Stamp("dateTime", 1, 5, 0, -5)),
      Event(Stamp("dateTime", 1, 9, 30, 0),  Stamp("dateTime", 1, 9, 30, 0)),
      Event(Stamp("dateTime", 0, 0, 0, 0),   Stamp("dateTime", 8, 0, 0, 0)),
      Event(Stamp("dateTime", 0, 0, 0, 0),   Stamp("dateTime", 14, 0, 0, 0)),
      Event(Stamp("dateTime", 14, 9, 0, 0),  Stamp("dateTime", 14, 17, 0, 0)),
      Event(Stamp("date", 2, 0, 0, 0),       Stamp("date", 3, 0, 0, 0)),
      Event(Stamp("bad", 12, 9, 0, 0),       Stamp("bad", 12, 10, 0, 0)) }

\* orderBy = 'startTime': the provider lists events by ascending start
SortedByStart(seq) ==
    \A i \in 1..(Len(seq) - 1) : InstantOf(seq[i].start) <= InstantOf(seq[i + 1].start)

Calendars ==
    { c \in UNION { [1..n -> EventMenu] : n \in 0..MaxEvents } : SortedByStart(c) }

\* events().list(timeMin, timeMax, singleEvents, orderBy = 'startTime'):
\* the events ending after timeMin and starting before timeMax, in order
ListEvents(cal, timeMin, timeMax) ==
    SelectSeq(cal, LAMBDA ev : InstantOf(ev.end) > timeMin /\ InstantOf(ev.start) < timeMax)

-----------------------------------------------------------------------------
(* find_slot_in_range *)

business_start == 9
business_end == 17

\* a conflict test that only asks whether the event is running at slot_start
OverlapsAtStartOnly(slot_start, slot_end, event_start, event_end) ==
    event_start <= slot_start /\ slot_start < event_end

\* a conflict test with closed intervals: touching endpoints conflict
OverlapsClosed(slot_start, slot_end, event_start, event_end) ==
    ~ (slot_end < event_start \/ slot_start > event_end)

\* line 112 for one event: not (slot_end <= event_start or slot_start >= event_end)
Overlaps(slot_start, slot_end, event_start, event_end) ==
    ~ (slot_end <= event_start \/ slot_start >= event_end)

\* The loop over events for one candidate (lines 102-114): "free", "conflict",
\* or the exception raised while parsing the i-th event (ValueError) or while
\* comparing the timezone-aware slot bounds with a naive event bound
\* (TypeError; the `or` of line 112 is evaluated left to right).
RECURSIVE CheckEvents(_, _, _, _)
CheckEvents(evs, i, slot_start, slot_end) ==
    IF i > Len(evs) THEN "free"
    ELSE LET es == ParseIso(evs[i].start)
             ee == ParseIso(evs[i].end)
         IN  IF es.kind = "ValueError" \/ ee.kind = "ValueError" THEN "ValueError"
             ELSE IF es.kind = "naive" THEN "TypeError"
             ELSE IF ~ (slot_end <= es.instant) /\ ee.kind = "naive" THEN "TypeError"
             ELSE IF Overlaps(slot_start, slot_end, es.instant, ee.instant) THEN "conflict"
             ELSE CheckEvents(evs, i + 1, slot_start, slot_end)

\* the dictionary returned at lines 117-121; tz is the offset suffix of the
\* isoformat strings: slot_start is made timezone-aware only inside the loop
\* over events (lines 108-110)
Slot(evs, slot_start, slot_end) ==
    [start   |-> slot_start,
     end     |-> slot_end,
     tz      |-> IF Len(evs) > 0 THEN "+00:00" ELSE "",
     display |-> [weekday |-> Weekday(DateOf(slot_start)),
                  day     |-> DateOf(slot_start),
                  hour    |-> MinuteOfDay(slot_start) \div MinutesPerHour,
                  minute  |-> MinuteOfDay(slot_start) % MinutesPerHour]]

NoSlot == [kind |-> "none"]

\* a range that stops one hour early: range(business_start, business_end - duration_hours)
HourRangeEndEarly(dur) == business_end - dur

\* the exclusive end of range(business_start, business_end - duration_hours + 1)
HourRangeEnd(dur) == business_end - dur + 1

\* the loop over hours of one day (lines 97-121), from `hour` on
RECURSIVE ScanHours(_, _, _, _)
ScanHours(evs, current_date, hour, dur) ==
    IF hour >= HourRangeEnd(dur) THEN NoSlot
    ELSE LET slot_start == ReplaceHour(current_date, hour)
             slot_end   == PlusHours(slot_start, dur)
             c          == CheckEvents(evs, 1, slot_start, slot_end)
         IN  CASE c = "free"     -> [kind |-> "slot", slot |-> Slot(evs, slot_start, slot_end)]
               [] c = "conflict" -> ScanHours(evs, current_date, hour + 1, dur)
               [] OTHER          -> [kind |-> "error", error |-> c]

\* weekend test of line 93
IsWeekend(day) == Weekday(day) >= 5

\* a scan that walks the days of the range from the last to the first
RECURSIVE ScanDaysLastFirst(_, _, _, _, _)
ScanDaysLastFirst(evs, base_time, day_offset, end_day, dur) ==
    IF day_offset > end_day THEN NoSlot
    ELSE LET current_date == PlusDays(base_time, end_day)
         IN  IF IsWeekend(DateOf(current_date))
             THEN ScanDaysLastFirst(evs, base_time, day_offset, end_day - 1, dur)
             ELSE LET r == ScanHours(evs, current_date, business_start, dur)
                  IN  IF r.kind = "none"
                      THEN ScanDaysLastFirst(evs, base_time, day_offset, end_day - 1, dur)
                      ELSE r

\* the loop over days (lines 89-123), from day_offset on
RECURSIVE ScanDays(_, _, _, _, _)
ScanDays(evs, base_time, day_offset, end_day, dur) ==
    IF day_offset > end_day THEN NoSlot
    ELSE LET current_date == PlusDays(base_time, day_offset)
         IN  IF IsWeekend(DateOf(current_date))
             THEN ScanDays(evs, base_time, day_offset + 1, end_day, dur)
             ELSE LET r == ScanHours(evs, current_date, business_start, dur)
                  IN  IF r.kind = "none"
                      THEN ScanDays(evs, base_time, day_offset + 1, end_day, dur)
                      ELSE r

find_slot_in_range(evs, base_time, start_day, end_day, dur) ==
    ScanDays(evs, base_time, start_day, end_day, dur)

\* cumulative ranges: the mid range starts at day 1 again
rangesCumulative == << <<1, 5>>, <<1, 10>>, <<11, 14>> >>

\* lines 69-73
ranges == << <<1, 5>>, <<6, 10>>, <<11, 14>> >>

-----------------------------------------------------------------------------
(* The calls *)

NowMinutes == { 8 * MinutesPerHour + 15, 13 * MinutesPerHour + 40 }
DaysAheadChoices == { 7, 14 }

NoRequest == [kind |-> "none"]
NoBooking == [status |-> "none"]

\* America/New_York is 5 hours behind UTC in winter and 4 in summer
NewYorkOffsets == { -5, -4 }

Sessions == {"A", "B"}

\* a session that has not called anything yet
NewSession == [pc |-> "start", slots |-> << >>, event |-> NoSlot]

\* Python's None where a string is expected
PyNone == <<"None">>

\* self.selected_time = None: no slot was selected yet
NoSelectedTime == [selected |-> "None"]

\* no call was served yet
NoCall ==
    [handler |-> "none", message |-> << >>, use_ui |-> FALSE, query |-> << >>,
     response |-> << >>, output |-> << >>]

\* the agents as constructed: root_agent = CalendarAgent(..., use_ui = True)
AgentsIdle ==
    /\ agent_use_ui = TRUE
    /\ selected_time = NoSelectedTime
    /\ call = NoCall
    /\ served = << >>

Init ==
    /\ now \in [wd : 0..6, tod : NowMinutes]
    /\ days_ahead \in DaysAheadChoices
    /\ duration_hours \in 1..MaxDur
    /\ calendar \in Calendars
    /\ pc = "start"
    /\ events = << >>
    /\ available_slots = << >>
    /\ error = "none"
    /\ request = NoRequest
    /\ insert_calls = 0
    /\ booking = NoBooking
    /\ sessions = [s \in Sessions |-> NewSession]
    /\ AgentsIdle

\* the loop over ranges (lines 75-78), from the i-th range on, appending to acc
RECURSIVE ScanRanges(_, _, _, _, _)
ScanRanges(evs, base_time, dur, i, acc) ==
    IF i > Len(ranges) THEN [kind |-> "ok", slots |-> acc]
    ELSE LET slot == find_slot_in_range(evs, base_time, ranges[i][1], ranges[i][2], dur)
         IN  CASE slot.kind = "error" -> slot
               [] slot.kind = "slot"  -> ScanRanges(evs, base_time, dur, i + 1,
                                                    Append(acc, slot.slot))
               [] OTHER               -> ScanRanges(evs, base_time, dur, i + 1, acc)

\* find_available_slots (lines 36-80): list the events between now and
\* now + days_ahead, scan the three ranges, return the list or raise
FindAvailableSlots ==
    /\ pc = "start"
    /\ LET end_date == PlusDays(now.tod, days_ahead)
           items    == ListEvents(calendar, now.tod, end_date)
           r        == ScanRanges(items, now.tod, duration_hours, 1, << >>)
       IN  /\ events' = items
           /\ IF r.kind = "ok"
              THEN /\ available_slots' = r.slots
                   /\ pc' = "returned"
                   /\ UNCHANGED error
              ELSE /\ pc' = "raised"
                   /\ error' = r.error
                   /\ UNCHANGED available_slots
    /\ UNCHANGED <<now, days_ahead, duration_hours, calendar, request,
                   insert_calls, booking, sessionVars, agentVars>>

\* the event dictionary of lines 147-173, for the start / end strings of a slot
InsertBody(start_time, end_time) ==
    [kind  |-> "insert",
     start |-> [dateTime |-> start_time, timeZone |-> "America/New_York"],
     end   |-> [dateTime |-> end_time, timeZone |-> "America/New_York"]]

\* the provider's reading of a body's dateTime: the offset of the string when
\* it has one, else the wall time of the timeZone field
StoredStamp(dt, off) ==
    [fmt |-> "dateTime", local |-> dt.local, off |-> IF dt.tz = "" THEN off ELSE 0]

\* the number of events of a listing equal to ev
Copies(cal, ev) == Cardinality({ k \in 1..Len(cal) : cal[k] = ev })

\* an insert that first looks the interval up and leaves the calendar alone
\* when it already holds an event on it
InsertUnlessTaken(cal, ev) ==
    IF Copies(cal, ev) > 0 THEN cal
    ELSE LET k == Cardinality({ j \in 1..Len(cal) :
                                  InstantOf(cal[j].start) <= InstantOf(ev.start) })
         IN  SubSeq(cal, 1, k) \o <<ev>> \o SubSeq(cal, k + 1, Len(cal))

\* the provider keeps its listing ordered by start
RECURSIVE InsertByStart(_, _)
InsertByStart(cal, ev) ==
    IF cal = << >> THEN <<ev>>
    ELSE IF InstantOf(ev.start) < InstantOf(Head(cal).start) THEN <<ev>> \o cal
    ELSE <<Head(cal)>> \o InsertByStart(Tail(cal), ev)

\* an insert that is issued a second time when the first attempt raised
InsertCallsWithRetry(ok) == IF ok THEN 1 ELSE 2

\* the events().insert(...).execute() calls one book_appointment call issues
\* (lines 175-180): one statement, outside any loop or try block
InsertCalls(ok) == 1

\* book_appointment (lines 125-186) for one of the offered slots; the insert
\* call either returns or raises
BookAppointment ==
    /\ pc = "returned"
    /\ \E i \in 1..Len(available_slots), ok \in BOOLEAN, off \in NewYorkOffsets :
         LET slot == available_slots[i]
             body == InsertBody([local |-> slot.start, tz |-> slot.tz],
                                [local |-> slot.end, tz |-> slot.tz])
         IN  /\ request' = body
             /\ insert_calls' = insert_calls + InsertCalls(ok)
             /\ IF ok
                THEN /\ calendar' = InsertByStart(calendar,
                                        Event(StoredStamp(body.start.dateTime, off),
                                              StoredStamp(body.end.dateTime, off)))
                     /\ booking' = [status |-> "confirmed"]
                     /\ pc' = "booked"
                     /\ UNCHANGED error
                ELSE /\ pc' = "raised"
                     /\ error' = "HttpError"
                     /\ UNCHANGED <<calendar, booking>>
    /\ UNCHANGED <<now, days_ahead, duration_hours, events, available_slots,
                   sessionVars, agentVars>>

Next == FindAvailableSlots \/ BookAppointment

Spec == Init /\ [][Next]_vars

-----------------------------------------------------------------------------
(* Two sessions on one calendar.  Each session calls find_available_slots   *)
(* with its default arguments and then book_appointment for one of the      *)
(* slots it was offered; the calls of the two sessions interleave freely.   *)

SessionCalendars == { c \in Calendars : Len(c) <= MaxSessionEvents }

InitSessions ==
    /\ now \in [wd : 0..6, tod : NowMinutes]
    /\ days_ahead = 14
    /\ duration_hours = 1
    /\ calendar \in SessionCalendars
    /\ pc = "start"
    /\ events = << >>
    /\ available_slots = << >>
    /\ error = "none"
    /\ request = NoRequest
    /\ insert_calls = 0
    /\ booking = NoBooking
    /\ sessions = [s \in Sessions |-> NewSession]
    /\ AgentsIdle

\* find_available_slots (lines 36-80) called by session s
SessionScan(s) ==
    /\ sessions[s].pc = "start"
    /\ LET end_date == PlusDays(now.tod, days_ahead)
           items    == ListEvents(calendar, now.tod, end_date)
           r        == ScanRanges(items, now.tod, duration_hours, 1, << >>)
       IN  sessions' = [sessions EXCEPT ![s] =
                           IF r.kind = "ok"
                           THEN [@ EXCEPT !.pc = "returned", !.slots = r.slots]
                           ELSE [@ EXCEPT !.pc = "raised"]]
    /\ UNCHANGED <<now, days_ahead, duration_hours, calendar, pc, events,
                   available_slots, error, request, insert_calls, booking,
                   agentVars>>

\* book_appointment (lines 125-186) called by session s for a slot it was
\* offered: the body is built from the strings of the slot and inserted; the
\* function reads nothing from the calendar before it writes
SessionBook(s) ==
    /\ sessions[s].pc = "returned"
    /\ \E i \in 1..Len(sessions[s].slots), ok \in BOOLEAN, off \in NewYorkOffsets :
         LET slot == sessions[s].slots[i]
             body == InsertBody([local |-> slot.start, tz |-> slot.tz],
                                [local |-> slot.end, tz |-> slot.tz])
             ev   == Event(StoredStamp(body.start.dateTime, off),
                           StoredStamp(body.end.dateTime, off))
         IN  IF ok
             THEN /\ calendar' = InsertByStart(calendar, ev)
                  /\ sessions' = [sessions EXCEPT ![s].pc = "booked", ![s].event = ev]
             ELSE /\ sessions' = [sessions EXCEPT ![s].pc = "raised"]
                  /\ UNCHANGED calendar
    /\ UNCHANGED <<now, days_ahead, duration_hours, pc, events,
                   available_slots, error, request, insert_calls, booking,
                   agentVars>>

NextSessions == \E s \in Sessions : SessionScan(s) \/ SessionBook(s)

SpecSessions == InitSessions /\ [][NextSessions]_vars

-----------------------------------------------------------------------------
(* Text.  A Python string is the sequence of its characters, so that       *)
(* `sub in s`, s.lower() and the f-strings are computed character by       *)
(* character.                                                              *)

UpperLetters ==
    <<"A", "B", "C", "D", "E", "F", "G", "H", "I", "J", "K", "L", "M",
      "N", "O", "P", "Q", "R", "S", "T", "U", "V", "W", "X", "Y", "Z">>
LowerLetters ==
    <<"a", "b", "c", "d", "e", "f", "g", "h", "i", "j", "k", "l", "m",
      "n", "o", "p", "q", "r", "s", "t", "u", "v", "w", "x", "y", "z">>

LowerChar(c) ==
    IF \E k \in DOMAIN UpperLetters : UpperLetters[k] = c
    THEN LowerLetters[CHOOSE k \in DOMAIN UpperLetters : UpperLetters[k] = c]
    ELSE c

\* s.lower()
Lower(s) == [i \in 1..Len(s) |-> LowerChar(s[i])]

\* sub in s
Contains(sub, s) ==
    \E i \in 0..(Len(s) - Len(sub)) : SubSeq(s, i + 1, i + Len(sub)) = sub

\* str(v) as an f-string field formats it: None reads "None"
Str(v) == IF v = PyNone THEN <<"N", "o", "n", "e">> ELSE v

\* the concatenation of the strings of a list
RECURSIVE Concat(_)
Concat(strs) == IF strs = << >> THEN << >> ELSE Head(strs) \o Concat(Tail(strs))

-----------------------------------------------------------------------------
(* CalendarAgent (src/calendar_agent_a2a/agent.py) *)


SAMPLE_TIME_SLOTS ==
    << [date     |-> <<"2", "0", "2", "6", "-", "0", "1", "-", "1", "5">>,
         time     |-> <<"1", "0", ":", "0", "0", " ", "A", "M">>,
         dateTime |-> <<"2", "0", "2", "6", "-", "0", "1", "-", "1", "5", "T",
                        "1", "0", ":", "0", "0", ":", "0", "0">>],
       [date     |-> <<"2", "0", "2", "6", "-", "0", "1", "-", "1", "6">>,
         time     |-> <<"2", ":", "0", "0", " ", "P", "M">>,
         dateTime |-> <<"2", "0", "2", "6", "-", "0", "1", "-", "1", "6", "T",
                        "1", "4", ":", "0", "0", ":", "0", "0">>],
       [date     |-> <<"2", "0", "2", "6", "-", "0", "1", "-", "1", "7">>,
         time     |-> <<"1", "1", ":", "0", "0", " ", "A", "M">>,
         dateTime |-> <<"2", "0", "2", "6", "-", "0", "1", "-", "1", "7", "T",
                        "1", "1", ":", "0", "0", ":", "0", "0">>] >>

SELECT_TIME_SLOT ==
    <<"S", "E", "L", "E", "C", "T", "_", "T", "I", "M", "E", "_", "S", "L",
      "O", "T">>
SUBMIT_BOOKING ==
    <<"S", "U", "B", "M", "I", "T", "_", "B", "O", "O", "K", "I", "N", "G">>

\* get_time_slot_ui(): one message, whose only top-level key is surfaceUpdate;
\* the list holds one card per sample slot, each with a Select button
get_time_slot_ui ==
    [surfaceUpdate |->
        [surfaceId  |-> "time-slots",
         components |->
            << [type |-> "Text", text |-> "Available Appointment Times"],
               [type  |-> "List",
                items |-> [i \in DOMAIN SAMPLE_TIME_SLOTS |->
                    [type   |-> "Card",
                     date   |-> SAMPLE_TIME_SLOTS[i].date,
                     time   |-> SAMPLE_TIME_SLOTS[i].time,
                     button |-> [type   |-> "Button",
                                 text   |-> "Select",
                                 action |-> [actionName |-> SELECT_TIME_SLOT,
                                             context |->
                                               [slotIndex |-> i - 1,
                                                dateTime  |-> SAMPLE_TIME_SLOTS[i].dateTime]]]]]] >>]]

\* get_booking_form_ui(selected_time): one message, whose only top-level key
\* is surfaceUpdate
get_booking_form_ui(slot) ==
    [surfaceUpdate |->
        [surfaceId  |-> "booking-form",
         components |->
            << [type |-> "Text", text |-> "Complete Your Booking"],
               [type |-> "Text", date |-> slot.date, time |-> slot.time],
               [type |-> "TextField", id |-> "name"],
               [type |-> "TextField", id |-> "email"],
               [type   |-> "Button",
                text   |-> "Book Appointment",
                action |-> [actionName |-> SUBMIT_BOOKING,
                            context |-> [name     |-> "{{name}}",
                                         email    |-> "{{email}}",
                                         dateTime |-> slot.dateTime]]] >>]]

\* A response is a sequence of segments: text, the literal delimiter
\* ---a2ui_JSON---, and the text json.dumps wrote for a value.
TextSeg(t) == [seg |-> "text", text |-> t]
DelimiterSeg == [seg |-> "delimiter"]
JsonSeg(v) == [seg |-> "json", value |-> v]

\* the keywords stream looks for (lines 104, 116, 132)
Keywords ==
    [
     available |->
        <<"a", "v", "a", "i", "l", "a", "b", "l", "e">>,
     schedule |->
        <<"s", "c", "h", "e", "d", "u", "l", "e">>,
     appointment |->
        <<"a", "p", "p", "o", "i", "n", "t", "m", "e", "n", "t">>,
     book |->
        <<"b", "o", "o", "k">>,
     at |->
        <<"a", "t">>,
     year2026 |->
        <<"2", "0", "2", "6">>,
     Please_book |->
        <<"P", "l", "e", "a", "s", "e", " ", "b", "o", "o", "k">> ]

\* an item with is_task_complete = True in place of a progress item
ProgressItemComplete(updates) == [is_task_complete |-> TRUE, updates |-> updates]

\* the progress items of lines 113 and 129
ProgressItem(updates) == [is_task_complete |-> FALSE, updates |-> updates]

\* the final items of lines 114, 130, 135 and 140
FinalItem(content) == [is_task_complete |-> TRUE, content |-> content]

\* the loop of lines 118-121: the first sample slot whose dateTime occurs in
\* the query replaces self.selected_time
SelectSlot(query, selected) ==
    IF \E i \in DOMAIN SAMPLE_TIME_SLOTS : Contains(SAMPLE_TIME_SLOTS[i].dateTime, query)
    THEN SAMPLE_TIME_SLOTS[CHOOSE i \in DOMAIN SAMPLE_TIME_SLOTS :
            /\ Contains(SAMPLE_TIME_SLOTS[i].dateTime, query)
            /\ \A j \in 1..(i - 1) : ~ Contains(SAMPLE_TIME_SLOTS[j].dateTime, query)]
    ELSE selected

\* the branch of stream that handles the query (lines 104, 116, 132, 137)
Stage(query) ==
    LET q == Lower(query)
    IN  IF Contains(Keywords.available, q) \/ Contains(Keywords.schedule, q)
             \/ Contains(Keywords.appointment, q)
        THEN "time_slots"
        ELSE IF Contains(Keywords.book, q) /\ (Contains(Keywords.at, q) \/ Contains(Keywords.year2026, query))
        THEN "booking_form"
        ELSE IF Contains(Keywords.Please_book, query) \/ Contains(SUBMIT_BOOKING, query)
        THEN "confirmation"
        ELSE "default"

\* CalendarAgent.stream (lines 100-140): the items it yields and the value
\* of self.selected_time when it ends
stream(query, selected, ui) ==
    CASE Stage(query) = "time_slots" ->
            [items |->
                << ProgressItem("Finding available times..."),
                   FinalItem(IF ui
                             THEN << TextSeg("Here are the available appointment times:"),
                                     DelimiterSeg,
                                     JsonSeg(<< get_time_slot_ui >>) >>
                             ELSE << TextSeg("Here are the available times:") >>) >>,
             selected_time |-> selected]
      [] Stage(query) = "booking_form" ->
            LET chosen == SelectSlot(query, selected)
            IN  [items |->
                    << ProgressItem("Preparing booking form..."),
                       FinalItem(IF ui /\ chosen # NoSelectedTime
                                 THEN << TextSeg("Great! Please provide your details:"),
                                         DelimiterSeg,
                                         JsonSeg(<< get_booking_form_ui(chosen) >>) >>
                                 ELSE << TextSeg("Please provide your name and email to complete the booking.") >>) >>,
                 selected_time |-> chosen]
      [] Stage(query) = "confirmation" ->
            [items |-> << FinalItem(<< TextSeg("Your appointment has been booked successfully! You'll receive a confirmation email shortly.") >>) >>,
             selected_time |-> selected]
      [] OTHER ->
            [items |-> << FinalItem(<< TextSeg("I can help you schedule an appointment. Would you like to see available times?") >>) >>,
             selected_time |-> selected]

-----------------------------------------------------------------------------
(* Inbound messages.  A message is the list of its parts; a dictionary is  *)
(* the list of its <<key, value>> pairs in insertion order.                *)

TextPart(t) == [kind |-> "text", text |-> t]
DataPart(d) == [kind |-> "data", data |-> d]

\* key in d
HasKey(d, key) == \E i \in DOMAIN d : d[i][1] = key

\* d.get(key, default)
Get(d, key, default) ==
    IF HasKey(d, key) THEN d[CHOOSE i \in DOMAIN d : d[i][1] = key][2] ELSE default

\* the keys of the dictionaries
Keys ==
    [
     userAction |->
        <<"u", "s", "e", "r", "A", "c", "t", "i", "o", "n">>,
     actionName |->
        <<"a", "c", "t", "i", "o", "n", "N", "a", "m", "e">>,
     name |->
        <<"n", "a", "m", "e">>,
     context |->
        <<"c", "o", "n", "t", "e", "x", "t">>,
     dateTime |->
        <<"d", "a", "t", "e", "T", "i", "m", "e">>,
     email |->
        <<"e", "m", "a", "i", "l">>,
     vehicle |->
        <<"v", "e", "h", "i", "c", "l", "e">>,
     year |->
        <<"y", "e", "a", "r">>,
     make |->
        <<"m", "a", "k", "e">>,
     model |->
        <<"m", "o", "d", "e", "l">>,
     mileage |->
        <<"m", "i", "l", "e", "a", "g", "e">>,
     condition |->
        <<"c", "o", "n", "d", "i", "t", "i", "o", "n">>,
     reason |->
        <<"r", "e", "a", "s", "o", "n">> ]

submit_vehicle_info ==
    <<"s", "u", "b", "m", "i", "t", "_", "v", "e", "h", "i", "c", "l", "e",
      "_", "i", "n", "f", "o">>
schedule_appraisal ==
    <<"s", "c", "h", "e", "d", "u", "l", "e", "_", "a", "p", "p", "r", "a",
      "i", "s", "a", "l">>
CANCEL == <<"C", "A", "N", "C", "E", "L">>
\* values a client sends in a context
Values ==
    [
     name |->
        <<"A", "n", "n">>,
     email |->
        <<"a", "n", "n", "@", "e", "x", "a", "m", "p", "l", "e", ".", "c", "o",
          "m">>,
     year |->
        <<"2", "0", "1", "9">>,
     make |->
        <<"H", "o", "n", "d", "a">>,
     model |->
        <<"C", "i", "v", "i", "c">>,
     mileage |->
        <<"4", "5", "0", "0", "0">>,
     condition |->
        <<"f", "a", "i", "r">>,
     reason |->
        <<"b", "u", "s", "y">>,
     good |->
        <<"g", "o", "o", "d">> ]

\* the grave accent U+0060 of the Markdown code fences, named rather than
\* written
Backtick == "grave accent"

\* what users type
Texts ==
    [
     available |->
        <<"W", "h", "a", "t", " ", "t", "i", "m", "e", "s", " ", "a", "r", "e",
          " ", "a", "v", "a", "i", "l", "a", "b", "l", "e", "?">>,
     schedule |->
        <<"S", "c", "h", "e", "d", "u", "l", "e", " ", "a", " ", "v", "i", "s",
          "i", "t">>,
     book_slot |->
        <<"b", "o", "o", "k", " ", "2", "0", "2", "6", "-", "0", "1", "-", "1",
          "6", "T", "1", "4", ":", "0", "0", ":", "0", "0">>,
     book_at |->
        <<"B", "o", "o", "k", " ", "i", "t", " ", "a", "t", " ", "n", "o", "o",
          "n">>,
     please_book |->
        <<"P", "l", "e", "a", "s", "e", " ", "b", "o", "o", "k", " ", "m", "e",
          " ", "i", "n">>,
     book_me |->
        <<"b", "o", "o", "k", " ", "m", "e">>,
     hello |->
        <<"H", "e", "l", "l", "o">>,
     ui_text |->
        <<"H", "i", " ", "-", "-", "-", "a", "2", "u", "i", "_", "J", "S", "O",
          "N", "-", "-", "-", " ", "[", "]">>,
     ui_broken |->
        <<"H", "i", " ", "-", "-", "-", "a", "2", "u", "i", "_", "J", "S", "O",
          "N", "-", "-", "-", " ", "o", "o", "p", "s">>,
     ui_blank |->
        <<"H", "i", " ", "-", "-", "-", "a", "2", "u", "i", "_", "J", "S", "O",
          "N", "-", "-", "-", " ">>,
     ui_two |->
        <<"H", "i", " ", "-", "-", "-", "a", "2", "u", "i", "_", "J", "S", "O",
          "N", "-", "-", "-", " ", "[", "{", "}", ",", " ", "{", "}", "]">>,
     ui_object |->
        <<"H", "i", " ", "-", "-", "-", "a", "2", "u", "i", "_", "J", "S", "O",
          "N", "-", "-", "-", "{", "}">>,
     ui_fenced |->
        <<"H", "i", "\n", "-", "-", "-", "a", "2", "u", "i", "_", "J", "S", "O",
          "N", "-", "-", "-", "\n", Backtick, Backtick, Backtick, "j", "s",
          "o", "n", "\n", "[", "{", "}", "]", "\n", Backtick, Backtick,
          Backtick>> ]

UserTexts ==
    { Texts.available, Texts.schedule, Texts.book_slot, Texts.book_at, Texts.please_book, Texts.book_me,
      Texts.hello, SUBMIT_BOOKING, Texts.ui_text, Texts.ui_broken, Texts.ui_two,
      Texts.ui_object, Texts.ui_fenced, Texts.ui_blank, << >> }

\* the contexts the buttons of the surfaces send, and some a client can send
Contexts ==
    { << >>,
      << <<Keys.reason, Values.reason>> >>,
      << <<Keys.dateTime, <<"2", "0", "2", "6", "-", "0", "1", "-", "1", "5", "T", "1", "0", ":", "0", "0", ":", "0", "0">>>> >>,
      << <<Keys.dateTime, <<"2", "0", "2", "6", "-", "0", "1", "-", "1", "6", "T", "1", "4", ":", "0", "0", ":", "0", "0">>>> >>,
      << <<Keys.name, Values.name>>, <<Keys.email, Values.email>>, <<Keys.dateTime, <<"2", "0", "2", "6", "-", "0", "1", "-", "1", "7", "T", "1", "1", ":", "0", "0", ":", "0", "0">>>> >>,
      << <<Keys.year, Values.year>>, <<Keys.make, Values.make>>, <<Keys.model, Values.model>>,
         <<Keys.mileage, Values.mileage>> >>,
      << <<Keys.year, Values.year>>, <<Keys.make, Values.make>>, <<Keys.model, Values.model>>,
         <<Keys.mileage, Values.mileage>>, <<Keys.condition, Values.condition>> >> }

ActionNames ==
    { SELECT_TIME_SLOT, SUBMIT_BOOKING, submit_vehicle_info, schedule_appraisal, CANCEL }

\* the userAction dictionaries: the action name stands under the key
\* actionName or under the key name
UserActions ==
    { << <<key, action>>, <<Keys.context, ctx>> >> :
        key \in {Keys.actionName, Keys.name}, action \in ActionNames, ctx \in Contexts }

Messages ==
    { << >> }
      \cup { << TextPart(t) >> : t \in UserTexts }
      \cup { << DataPart(<< <<Keys.userAction, ua>> >>) >> : ua \in UserActions }
      \cup { << TextPart(Texts.hello), DataPart(<< <<Keys.userAction, ua>> >>) >> :
                ua \in { u \in UserActions : u[2][2] = << >> } }
      \cup { << DataPart(<< <<Keys.userAction, ua>> >>), TextPart(Texts.hello) >> :
                ua \in { u \in UserActions : u[2][2] = << >> } }
      \cup { << DataPart(<< <<Keys.reason, Values.reason>> >>) >> }

\* the loop over the parts (lines 63-73 of calendar_agent_a2a/agent_executor.py,
\* lines 47-56 of calendar_agent/agent_executor.py): the userAction of the
\* last data part that has one; << >> stands for None and for an empty
\* dictionary alike, which the test `if ui_event_part:` does not tell apart
RECURSIVE FindUserAction(_, _, _)
FindUserAction(parts, i, found) ==
    IF i > Len(parts) THEN found
    ELSE IF parts[i].kind = "data" /\ HasKey(parts[i].data, Keys.userAction)
         THEN FindUserAction(parts, i + 1, Get(parts[i].data, Keys.userAction, << >>))
         ELSE FindUserAction(parts, i + 1, found)

\* the texts of the text parts of a message
TextsOf(parts) ==
    LET texts == SelectSeq(parts, LAMBDA p : p.kind = "text")
    IN  [i \in 1..Len(texts) |-> texts[i].text]

\* "\n".join(texts), as context.get_user_input() joins the text parts
RECURSIVE JoinLines(_)
JoinLines(texts) ==
    IF texts = << >> THEN << >>
    ELSE IF Len(texts) = 1 THEN texts[1]
    ELSE texts[1] \o <<"\n">> \o JoinLines(Tail(texts))

get_user_input(parts) == JoinLines(TextsOf(parts))

\* repr of a string value, and of a dictionary of strings
ReprStr(v) == IF v = PyNone THEN Str(v) ELSE <<"'">> \o v \o <<"'">>
RECURSIVE ReprItems(_)
ReprItems(d) ==
    IF d = << >> THEN << >>
    ELSE ReprStr(d[1][1]) \o <<":", " ">> \o ReprStr(d[1][2])
         \o (IF Len(d) > 1 THEN <<",", " ">> ELSE << >>) \o ReprItems(Tail(d))
ReprDict(d) == <<"{">> \o ReprItems(d) \o <<"}">>

\* s.strip()
IsSpace(c) == c \in {" ", "\n", "\t", "\r"}
RECURSIVE LStrip(_)
LStrip(s) == IF s # << >> /\ IsSpace(Head(s)) THEN LStrip(Tail(s)) ELSE s
RECURSIVE RStrip(_)
RStrip(s) ==
    IF s # << >> /\ IsSpace(s[Len(s)]) THEN RStrip(SubSeq(s, 1, Len(s) - 1)) ELSE s
Strip(s) == RStrip(LStrip(s))

\* s.lstrip(chars) and s.rstrip(chars): the characters of the set `chars`
\* are removed from the end of s, one by one
RECURSIVE LStripChars(_, _)
LStripChars(s, chars) ==
    IF s # << >> /\ Head(s) \in chars THEN LStripChars(Tail(s), chars) ELSE s
RECURSIVE RStripChars(_, _)
RStripChars(s, chars) ==
    IF s # << >> /\ s[Len(s)] \in chars
    THEN RStripChars(SubSeq(s, 1, Len(s) - 1), chars) ELSE s

delimiter ==
    <<"-", "-", "-", "a", "2", "u", "i", "_", "J", "S", "O", "N", "-", "-",
      "-">>

\* s.split(delimiter, 1) of a string that holds the delimiter
SplitAtDelimiter(s) ==
    LET k == CHOOSE i \in 0..(Len(s) - Len(delimiter)) :
                 /\ SubSeq(s, i + 1, i + Len(delimiter)) = delimiter
                 /\ \A j \in 0..(i - 1) : SubSeq(s, j + 1, j + Len(delimiter)) # delimiter
    IN  [before |-> SubSeq(s, 1, k), after |-> SubSeq(s, k + Len(delimiter) + 1, Len(s))]

\* the text without the white space JSON allows between its tokens
NoSpace(s) == SelectSeq(s, LAMBDA c : ~ IsSpace(c))

\* the number of objects of the text {},{},...,{}; -1 when the text is not
\* of that form
RECURSIVE CountObjects(_)
CountObjects(s) ==
    IF s = <<"{", "}">> THEN 1
    ELSE IF Len(s) > 3 /\ SubSeq(s, 1, 3) = <<"{", "}", ",">>
         THEN LET n == CountObjects(SubSeq(s, 4, Len(s)))
              IN  IF n < 0 THEN -1 ELSE n + 1
    ELSE -1

\* json.loads of a text a user typed.  Of the JSON texts the model reads the
\* empty object {} and the lists of empty objects [], [{}], [{}, {}], ...;
\* every other text of UserTexts is no JSON and raises JSONDecodeError.
LoadsText(s) ==
    LET t == NoSpace(s)
        n == IF Len(t) >= 2 /\ t[1] = "[" /\ t[Len(t)] = "]"
             THEN (IF Len(t) = 2 THEN 0 ELSE CountObjects(SubSeq(t, 2, Len(t) - 1)))
             ELSE -1
    IN  IF t = <<"{", "}">> THEN [ok |-> TRUE, is_list |-> FALSE, value |-> << >>]
        ELSE IF n >= 0 THEN [ok |-> TRUE, is_list |-> TRUE, value |-> [i \in 1..n |-> << >>]]
        ELSE [ok |-> FALSE]

\* create_a2ui_part(message): a data part that holds the message as it is
create_a2ui_part(msg) == DataPart(msg)

\* a status update that always ends the task
StatusUpdateAlwaysFinal(state, parts, final) ==
    [event |-> "status", state |-> state, parts |-> parts, final |-> TRUE]

\* an event put on the queue by updater.update_status
StatusUpdate(state, parts, final) ==
    [event |-> "status", state |-> state, parts |-> parts, final |-> final]

\* an event put on the queue by event_queue.send_message
SentMessage(parts) == [event |-> "message", parts |-> parts]

-----------------------------------------------------------------------------
(* The executors.  An execute call builds everything from its request and  *)
(* keeps nothing for the next one, so a behaviour follows one call from    *)
(* the idle server.                                                        *)

\* the constant pieces of the f-strings and the fixed sentences
Templates ==
    [
     id_like_to_book |->
        <<"I", "'", "d", " ", "l", "i", "k", "e", " ", "t", "o", " ", "b", "o",
          "o", "k", " ", "t", "h", "e", " ", "a", "p", "p", "o", "i", "n", "t",
          "m", "e", "n", "t", " ", "a", "t", " ">>,
     please_book |->
        <<"P", "l", "e", "a", "s", "e", " ", "b", "o", "o", "k", " ", "t", "h",
          "e", " ", "a", "p", "p", "o", "i", "n", "t", "m", "e", "n", "t", " ",
          "f", "o", "r", " ">>,
     open |->
        <<" ", "(">>,
     close_at |->
        <<")", " ", "a", "t", " ">>,
     vehicle |->
        <<".", " ", "V", "e", "h", "i", "c", "l", "e", ":", " ">>,
     submitted_event |->
        <<"U", "s", "e", "r", " ", "s", "u", "b", "m", "i", "t", "t", "e", "d",
          " ", "a", "n", " ", "e", "v", "e", "n", "t", ":", " ">>,
     with_data |->
        <<" ", "w", "i", "t", "h", " ", "d", "a", "t", "a", ":", " ">>,
     received |->
        <<"C", "a", "l", "e", "n", "d", "a", "r", " ", "a", "g", "e", "n", "t",
          " ", "r", "e", "c", "e", "i", "v", "e", "d", ":", " ">>,
     vehicle_info |->
        <<"U", "s", "e", "r", " ", "s", "u", "b", "m", "i", "t", "t", "e", "d",
          " ", "v", "e", "h", "i", "c", "l", "e", " ", "i", "n", "f", "o", ":",
          " ">>,
     miles |->
        <<" ", "m", "i", "l", "e", "s", ",", " ">>,
     condition |->
        <<" ", "c", "o", "n", "d", "i", "t", "i", "o", "n", ".", " ", "P", "l",
          "e", "a", "s", "e", " ", "p", "r", "o", "v", "i", "d", "e", " ", "a",
          " ", "t", "r", "a", "d", "e", "-", "i", "n", " ", "e", "s", "t", "i",
          "m", "a", "t", "e", ".">>,
     performed |->
        <<"U", "s", "e", "r", " ", "p", "e", "r", "f", "o", "r", "m", "e", "d",
          " ", "a", "c", "t", "i", "o", "n", ":", " ">>,
     hello |->
        <<"H", "e", "l", "l", "o", ",", " ", "I", "'", "d", " ", "l", "i", "k",
          "e", " ", "t", "o", " ", "t", "r", "a", "d", "e", " ", "i", "n", " ",
          "m", "y", " ", "v", "e", "h", "i", "c", "l", "e", ".">>,
     error_parsing |->
        <<"E", "r", "r", "o", "r", " ", "p", "a", "r", "s", "i", "n", "g", " ",
          "U", "I", ":", " ">>,
     session_required |->
        <<"S", "e", "s", "s", "i", "o", "n", " ", "I", "D", " ", "r", "e",
          "q", "u", "i", "r", "e", "d", " ", "f", "o", "r", " ", "a", "c",
          "t", "i", "o", "n", "s">>,
     user_action |->
        <<"U", "s", "e", "r", " ", "a", "c", "t", "i", "o", "n", ":", " ">>,
     with_context |->
        <<" ", "w", "i", "t", "h", " ", "c", "o", "n", "t", "e", "x", "t",
          ":", " ">>,
     session_not_found |->
        <<"S", "e", "s", "s", "i", "o", "n", " ", "n", "o", "t", " ", "f",
          "o", "u", "n", "d">> ]

\* the query of calendar_agent_a2a/agent_executor.py (lines 75-97)
CalendarA2AQuery(parts) ==
    LET ua     == FindUserAction(parts, 1, << >>)
        action == Get(ua, Keys.actionName, PyNone)
        ctx    == Get(ua, Keys.context, << >>)
    IN  IF ua # << >>
        THEN IF action = SELECT_TIME_SLOT
             THEN Templates.id_like_to_book \o Str(Get(ctx, Keys.dateTime, PyNone))
             ELSE IF action = SUBMIT_BOOKING
             THEN Concat(<< Templates.please_book, Str(Get(ctx, Keys.name, PyNone)), Templates.open,
                            Str(Get(ctx, Keys.email, PyNone)), Templates.close_at,
                            Str(Get(ctx, Keys.dateTime, PyNone)) >>)
             ELSE Concat(<< Templates.submitted_event, Str(action), Templates.with_data, ReprDict(ctx) >>)
        ELSE get_user_input(parts)

\* the whole content as one text part, the delimiter never looked for
CalendarA2APartsUnsplit(content) == << TextPart(Strip(content)) >>

\* the final parts of calendar_agent_a2a/agent_executor.py (lines 125-156)
CalendarA2AParts(content) ==
    IF Contains(delimiter, content)
    THEN LET halves  == SplitAtDelimiter(content)
             cleaned == Strip(RStripChars(LStripChars(Strip(halves.after),
                                                      {Backtick, "j", "s", "o", "n"}), {Backtick}))
             loaded  == LoadsText(cleaned)
         IN  (IF Strip(halves.before) # << >>
              THEN << TextPart(Strip(halves.before)) >> ELSE << >>)
             \o (IF Strip(halves.after) = << >> THEN << >>
                 ELSE IF loaded.ok
                      THEN (IF loaded.is_list
                            THEN [i \in 1..Len(loaded.value) |->
                                     create_a2ui_part(loaded.value[i])]
                            ELSE << create_a2ui_part(loaded.value) >>)
                      ELSE << TextPart(halves.after) >>)
    ELSE << TextPart(Strip(content)) >>

\* execute of calendar_agent_a2a/agent_executor.py (lines 36-171)
CalendarA2AExecute ==
    /\ call = NoCall
    /\ \E parts \in Messages, ext \in BOOLEAN :
        LET ua      == FindUserAction(parts, 1, << >>)
            action  == IF ua # << >> THEN Get(ua, Keys.actionName, PyNone) ELSE PyNone
            q       == CalendarA2AQuery(parts)
            content == Templates.received \o q
            final_state == IF action = SUBMIT_BOOKING THEN "completed" ELSE "input_required"
        IN  /\ call' = [handler  |-> "calendar_a2a",
                        message  |-> parts,
                        use_ui   |-> ext,
                        query    |-> q,
                        response |-> content,
                        output   |->
                            << StatusUpdate("working",
                                            << TextPart("Processing your request...") >>, FALSE),
                               StatusUpdate(final_state, CalendarA2AParts(content),
                                            final_state = "completed") >>]
            /\ UNCHANGED <<agent_use_ui, selected_time, served>>
            /\ UNCHANGED <<calendarVars, sessionVars>>

\* the user message of calendar_agent/agent_executor.py (lines 42-76): the
\* texts of the text parts, replaced by a sentence for the two actions the
\* executor knows
CalendarUserMessage(parts) ==
    LET ua     == FindUserAction(parts, 1, << >>)
        action == Get(ua, Keys.actionName, PyNone)
        ctx    == Get(ua, Keys.context, << >>)
    IN  IF ua # << >> /\ action = SELECT_TIME_SLOT
        THEN Templates.id_like_to_book \o Str(Get(ctx, Keys.dateTime, PyNone))
        ELSE IF ua # << >> /\ action = SUBMIT_BOOKING
        THEN Concat(<< Templates.please_book, Str(Get(ctx, Keys.name, PyNone)), Templates.open,
                       Str(Get(ctx, Keys.email, PyNone)), Templates.close_at,
                       Str(Get(ctx, Keys.dateTime, PyNone)), Templates.vehicle,
                       Str(Get(ctx, Keys.vehicle, << >>)) >>)
        ELSE Concat(TextsOf(parts))

\* the messages calendar_agent/agent_executor.py sends (lines 86-121)
CalendarSent(response_text, ext) ==
    IF ext /\ Contains(delimiter, response_text)
    THEN LET halves    == SplitAtDelimiter(response_text)
             text_part == Strip(halves.before)
             rest      == halves.after
             json_part == Strip(IF Contains(delimiter, rest)
                                THEN SplitAtDelimiter(rest).before ELSE rest)
             loaded    == LoadsText(json_part)
         IN  (IF text_part # << >> THEN << SentMessage(<< TextPart(text_part) >>) >>
              ELSE << >>)
             \o (IF json_part = << >> THEN << >>
                 ELSE IF loaded.ok
                      THEN (IF loaded.is_list
                            THEN [i \in 1..Len(loaded.value) |->
                                     SentMessage(<< create_a2ui_part(loaded.value[i]) >>)]
                            ELSE << >>)
                      ELSE << SentMessage(<< TextPart(Templates.error_parsing) >>) >>)
    ELSE << SentMessage(<< TextPart(response_text) >>) >>

\* execute of calendar_agent/agent_executor.py (lines 26-121)
CalendarExecute ==
    /\ call = NoCall
    /\ \E parts \in Messages, ext \in BOOLEAN :
        LET user_message  == CalendarUserMessage(parts)
            response_text == Templates.received \o user_message
        IN  /\ call' = [handler  |-> "calendar",
                        message  |-> parts,
                        use_ui   |-> ext,
                        query    |-> user_message,
                        response |-> response_text,
                        output   |-> CalendarSent(response_text, ext)]
            /\ UNCHANGED <<agent_use_ui, selected_time, served>>
            /\ UNCHANGED <<calendarVars, sessionVars>>

\* the loop of orchestrator_agent/a2a_server.py (lines 73-96) over the parts,
\* from the i-th on: a text part sets the query, a userAction sets it too
RECURSIVE OrchestratorQuery(_, _, _)
OrchestratorQuery(parts, i, q) ==
    IF i > Len(parts) THEN q
    ELSE IF parts[i].kind = "text"
         THEN OrchestratorQuery(parts, i + 1, parts[i].text)
    ELSE IF HasKey(parts[i].data, Keys.userAction)
         THEN LET user_action    == Get(parts[i].data, Keys.userAction, << >>)
                  action_name    == Get(user_action, Keys.name, << >>)
                  action_context == Get(user_action, Keys.context, << >>)
              IN  OrchestratorQuery(parts, i + 1,
                    IF action_name = submit_vehicle_info
                    THEN Concat(<< Templates.vehicle_info,
                                   Get(action_context, Keys.year, << >>), <<" ">>,
                                   Get(action_context, Keys.make, << >>), <<" ">>,
                                   Get(action_context, Keys.model, << >>), <<",", " ">>,
                                   Get(action_context, Keys.mileage, << >>), Templates.miles,
                                   Get(action_context, Keys.condition, Values.good),
                                   Templates.condition >>)
                    ELSE Templates.performed \o action_name)
    ELSE OrchestratorQuery(parts, i + 1, q)

\* the query without the default greeting of line 102
OrchestratorFinalQueryNoDefault(parts) ==
    LET q1 == OrchestratorQuery(parts, 1, << >>)
    IN  IF q1 = << >> THEN get_user_input(parts) ELSE q1

\* lines 61-102: the query handed to the runner
OrchestratorFinalQuery(parts) ==
    LET q1 == OrchestratorQuery(parts, 1, << >>)
        q2 == IF q1 = << >> THEN get_user_input(parts) ELSE q1
    IN  IF q2 = << >> THEN Templates.hello ELSE q2

\* the messages of the A2UI arrays an agent writes
Component(id, kind, children) == [id |-> id, component |-> kind, children |-> children]
SurfaceUpdate(surfaceId, components) ==
    [surfaceUpdate |-> [surfaceId |-> surfaceId, components |-> components]]
DataModelUpdate(surfaceId) == [dataModelUpdate |-> [surfaceId |-> surfaceId]]
BeginRendering(surfaceId, root) ==
    [beginRendering |-> [surfaceId |-> surfaceId, root |-> root]]

\* the components of the confirmation template (calendar_agent/agent.py,
\* lines 244-250), the root card being of kind `kind`
ConfirmComponents(kind) ==
    << Component("root", kind, <<"content">>),
       Component("content", "Column", <<"msg", "details", "email_note">>),
       Component("msg", "Text", << >>),
       Component("details", "Text", << >>),
       Component("email_note", "Text", << >>) >>

\* a component with the data-model paths it is bound to: the `path` values
\* of its text and of the context of its action
BoundComponent(id, kind, children, paths) ==
    [id |-> id, component |-> kind, children |-> children, paths |-> paths]

\* a dataModelUpdate with its contents: the keys, and the keys of the
\* valueMap of each
DataModelContents(surfaceId, contents) ==
    [dataModelUpdate |-> [surfaceId |-> surfaceId, contents |-> contents]]

(* The UI templates the prompts of the calendar agent                      *)
(* (src/calendar_agent/agent.py) and of the vehicle intake agent           *)
(* (src/vehicle_intake_agent/agent.py) give the language model.            *)

\* the time slot selection for two slots of CALENDAR_UI_EXAMPLES (lines 166-186)
TimeSlotsTwo ==
    << SurfaceUpdate("calendar",
          << BoundComponent("root", "Column", <<"title", "s1", "s2">>, << >>),
             BoundComponent("title", "Text", << >>, << >>),
             BoundComponent("s1", "Card", <<"r1">>, << >>),
             BoundComponent("r1", "Row", <<"t1", "b1">>, << >>),
             BoundComponent("t1", "Text", << >>,
                 << <<"/", "s", "l", "o", "t", "1", "/", "d", "i", "s", "p", "l", "a", "y">> >>),
             BoundComponent("b1", "Button", <<"bt1">>,
                 << <<"/", "s", "l", "o", "t", "1", "/", "d", "a", "t", "e", "T", "i", "m", "e">> >>),
             BoundComponent("bt1", "Text", << >>, << >>),
             BoundComponent("s2", "Card", <<"r2">>, << >>),
             BoundComponent("r2", "Row", <<"t2", "b2">>, << >>),
             BoundComponent("t2", "Text", << >>,
                 << <<"/", "s", "l", "o", "t", "2", "/", "d", "i", "s", "p", "l", "a", "y">> >>),
             BoundComponent("b2", "Button", <<"bt2">>,
                 << <<"/", "s", "l", "o", "t", "2", "/", "d", "a", "t", "e", "T", "i", "m", "e">> >>),
             BoundComponent("bt2", "Text", << >>, << >>) >>),
       DataModelContents("calendar",
          << [key |-> <<"s", "l", "o", "t", "1">>,
                valueMap |-> << <<"d", "i", "s", "p", "l", "a", "y">>,
                              <<"d", "a", "t", "e", "T", "i", "m", "e">> >>],
             [key |-> <<"s", "l", "o", "t", "2">>,
                valueMap |-> << <<"d", "i", "s", "p", "l", "a", "y">>,
                              <<"d", "a", "t", "e", "T", "i", "m", "e">> >>] >>),
       BeginRendering("calendar", "root") >>

\* the time slot selection for three slots of CALENDAR_UI_EXAMPLES (lines 189-215)
TimeSlotsThree ==
    << SurfaceUpdate("calendar",
          << BoundComponent("root", "Column", <<"title", "s1", "s2", "s3">>, << >>),
             BoundComponent("title", "Text", << >>, << >>),
             BoundComponent("s1", "Card", <<"r1">>, << >>),
             BoundComponent("r1", "Row", <<"t1", "b1">>, << >>),
             BoundComponent("t1", "Text", << >>,
                 << <<"/", "s", "l", "o", "t", "1", "/", "d", "i", "s", "p", "l", "a", "y">> >>),
             BoundComponent("b1", "Button", <<"bt1">>,
                 << <<"/", "s", "l", "o", "t", "1", "/", "d", "a", "t", "e", "T", "i", "m", "e">> >>),
             BoundComponent("bt1", "Text", << >>, << >>),
             BoundComponent("s2", "Card", <<"r2">>, << >>),
             BoundComponent("r2", "Row", <<"t2", "b2">>, << >>),
             BoundComponent("t2", "Text", << >>,
                 << <<"/", "s", "l", "o", "t", "2", "/", "d", "i", "s", "p", "l", "a", "y">> >>),
             BoundComponent("b2", "Button", <<"bt2">>,
                 << <<"/", "s", "l", "o", "t", "2", "/", "d", "a", "t", "e", "T", "i", "m", "e">> >>),
             BoundComponent("bt2", "Text", << >>, << >>),
             BoundComponent("s3", "Card", <<"r3">>, << >>),
             BoundComponent("r3", "Row", <<"t3", "b3">>, << >>),
             BoundComponent("t3", "Text", << >>,
                 << <<"/", "s", "l", "o", "t", "3", "/", "d", "i", "s", "p", "l", "a", "y">> >>),
             BoundComponent("b3", "Button", <<"bt3">>,
                 << <<"/", "s", "l", "o", "t", "3", "/", "d", "a", "t", "e", "T", "i", "m", "e">> >>),
             BoundComponent("bt3", "Text", << >>, << >>) >>),
       DataModelContents("calendar",
          << [key |-> <<"s", "l", "o", "t", "1">>,
                valueMap |-> << <<"d", "i", "s", "p", "l", "a", "y">>,
                              <<"d", "a", "t", "e", "T", "i", "m", "e">> >>],
             [key |-> <<"s", "l", "o", "t", "2">>,
                valueMap |-> << <<"d", "i", "s", "p", "l", "a", "y">>,
                              <<"d", "a", "t", "e", "T", "i", "m", "e">> >>],
             [key |-> <<"s", "l", "o", "t", "3">>,
                valueMap |-> << <<"d", "i", "s", "p", "l", "a", "y">>,
                              <<"d", "a", "t", "e", "T", "i", "m", "e">> >>] >>),
       BeginRendering("calendar", "root") >>

\* the booking form of CALENDAR_UI_EXAMPLES (lines 227-238)
BookingForm ==
    << SurfaceUpdate("booking",
          << BoundComponent("root", "Column", <<"title", "name_f", "email_f", "submit">>, << >>),
             BoundComponent("title", "Text", << >>, << >>),
             BoundComponent("name_f", "TextField", << >>,
                 << <<"/", "b", "o", "o", "k", "i", "n", "g", "/", "n", "a", "m", "e">> >>),
             BoundComponent("email_f", "TextField", << >>,
                 << <<"/", "b", "o", "o", "k", "i", "n", "g", "/", "e", "m", "a", "i", "l">> >>),
             BoundComponent("submit", "Button", <<"sub_t">>,
                 << <<"/", "b", "o", "o", "k", "i", "n", "g", "/", "n", "a", "m", "e">>,
                    <<"/", "b", "o", "o", "k", "i", "n", "g", "/", "e", "m", "a", "i", "l">>,
                    <<"/", "b", "o", "o", "k", "i", "n", "g", "/", "d", "a", "t", "e", "T", "i", "m", "e">> >>),
             BoundComponent("sub_t", "Text", << >>, << >>) >>),
       DataModelContents("booking",
          << [key |-> <<"b", "o", "o", "k", "i", "n", "g">>,
                valueMap |-> << <<"n", "a", "m", "e">>,
                              <<"e", "m", "a", "i", "l">>,
                              <<"d", "a", "t", "e", "T", "i", "m", "e">> >>] >>),
       BeginRendering("booking", "root") >>

\* the confirmation of CALENDAR_UI_EXAMPLES (lines 243-253)
Confirmation ==
    << SurfaceUpdate("confirm",
          << BoundComponent("root", "Card", <<"content">>, << >>),
             BoundComponent("content", "Column", <<"msg", "details", "email_note">>, << >>),
             BoundComponent("msg", "Text", << >>, << >>),
             BoundComponent("details", "Text", << >>,
                 << <<"/", "c", "o", "n", "f", "i", "r", "m", "/", "d", "e", "t", "a", "i", "l", "s">> >>),
             BoundComponent("email_note", "Text", << >>, << >>) >>),
       DataModelContents("confirm",
          << [key |-> <<"c", "o", "n", "f", "i", "r", "m">>,
                valueMap |-> << <<"d", "e", "t", "a", "i", "l", "s">> >>] >>),
       BeginRendering("confirm", "root") >>

\* the vehicle form of A2UI_INSTRUCTION (lines 80-92)
VehicleForm ==
    << SurfaceUpdate("vehicle_form",
          << BoundComponent("form_container", "Column", <<"year_field", "make_field", "model_field", "mileage_field", "submit_btn">>, << >>),
             BoundComponent("year_field", "TextField", << >>,
                 << <<"/", "v", "e", "h", "i", "c", "l", "e", "/", "y", "e", "a", "r">> >>),
             BoundComponent("make_field", "TextField", << >>,
                 << <<"/", "v", "e", "h", "i", "c", "l", "e", "/", "m", "a", "k", "e">> >>),
             BoundComponent("model_field", "TextField", << >>,
                 << <<"/", "v", "e", "h", "i", "c", "l", "e", "/", "m", "o", "d", "e", "l">> >>),
             BoundComponent("mileage_field", "TextField", << >>,
                 << <<"/", "v", "e", "h", "i", "c", "l", "e", "/", "m", "i", "l", "e", "a", "g", "e">> >>),
             BoundComponent("submit_btn", "Button", <<"submit_text">>,
                 << <<"/", "v", "e", "h", "i", "c", "l", "e", "/", "y", "e", "a", "r">>,
                    <<"/", "v", "e", "h", "i", "c", "l", "e", "/", "m", "a", "k", "e">>,
                    <<"/", "v", "e", "h", "i", "c", "l", "e", "/", "m", "o", "d", "e", "l">>,
                    <<"/", "v", "e", "h", "i", "c", "l", "e", "/", "m", "i", "l", "e", "a", "g", "e">> >>),
             BoundComponent("submit_text", "Text", << >>, << >>) >>),
       DataModelContents("vehicle_form",
          << [key |-> <<"v", "e", "h", "i", "c", "l", "e">>,
                valueMap |-> << <<"y", "e", "a", "r">>,
                              <<"m", "a", "k", "e">>,
                              <<"m", "o", "d", "e", "l">>,
                              <<"m", "i", "l", "e", "a", "g", "e">> >>] >>),
       BeginRendering("vehicle_form", "form_container") >>

\* the estimate card of A2UI_INSTRUCTION (lines 105-118)
EstimateCard ==
    << SurfaceUpdate("estimate_card",
          << BoundComponent("card_container", "Card", <<"card_content">>, << >>),
             BoundComponent("card_content", "Column", <<"title", "vehicle_summary", "estimate_range", "next_steps", "schedule_btn">>, << >>),
             BoundComponent("title", "Text", << >>, << >>),
             BoundComponent("vehicle_summary", "Text", << >>,
                 << <<"/", "e", "s", "t", "i", "m", "a", "t", "e", "/", "v", "e", "h", "i", "c", "l", "e", "_", "s", "u", "m", "m", "a", "r", "y">> >>),
             BoundComponent("estimate_range", "Text", << >>,
                 << <<"/", "e", "s", "t", "i", "m", "a", "t", "e", "/", "v", "a", "l", "u", "e", "_", "r", "a", "n", "g", "e">> >>),
             BoundComponent("next_steps", "Text", << >>, << >>),
             BoundComponent("schedule_btn", "Button", <<"schedule_text">>, << >>),
             BoundComponent("schedule_text", "Text", << >>, << >>) >>),
       DataModelContents("estimate_card",
          << [key |-> <<"e", "s", "t", "i", "m", "a", "t", "e">>,
                valueMap |-> << <<"v", "e", "h", "i", "c", "l", "e", "_", "s", "u", "m", "m", "a", "r", "y">>,
                              <<"v", "a", "l", "u", "e", "_", "r", "a", "n", "g", "e">> >>] >>),
       BeginRendering("estimate_card", "card_container") >>

\* the three-slot components with the data model of the two-slot template
TimeSlotsThreeWithTwo ==
    << TimeSlotsThree[1], TimeSlotsTwo[2], TimeSlotsThree[3] >>

\* the templates, the three-slot one carrying the data of two slots
UiTemplatesShortOfData ==
    { TimeSlotsTwo, TimeSlotsThreeWithTwo, BookingForm, Confirmation, VehicleForm,
      EstimateCard }

\* the templates of the two prompts
UiTemplates ==
    { TimeSlotsTwo, TimeSlotsThree, BookingForm, Confirmation, VehicleForm,
      EstimateCard }

\* a JSON object, as opposed to the JSON array of JsonSeg
JsonObjectSeg(v) == [seg |-> "json_object", value |-> v]

\* text that begins a JSON array and breaks off
BrokenJson == TextSeg("[{")

\* What the language model can answer: plain text; text and the array of a
\* template; a template of the prompts as it stands; an array without text
\* before it; an array whose beginRendering names a root that no component
\* declares; an array with a component of a kind the catalogue does not
\* have; text after the delimiter that is not JSON; a single JSON object;
\* nothing after the delimiter; nothing at all.
AgentResponses ==
    { << TextSeg("What vehicle would you like to trade in?") >>,
      << TextSeg("Your appointment is confirmed."), DelimiterSeg,
         JsonSeg(<< SurfaceUpdate("confirm", ConfirmComponents("Card")),
                    DataModelUpdate("confirm"),
                    BeginRendering("confirm", "root") >>) >>,
      << TextSeg("Your appointment is confirmed."), DelimiterSeg,
         JsonSeg(<< SurfaceUpdate("confirm", ConfirmComponents("Card")),
                    DataModelUpdate("confirm"),
                    BeginRendering("confirm", "main") >>) >>,
      << TextSeg("Your appointment is confirmed."), DelimiterSeg,
         JsonSeg(<< SurfaceUpdate("confirm", ConfirmComponents("UnknownType")),
                    DataModelUpdate("confirm"),
                    BeginRendering("confirm", "root") >>) >>,
      << DelimiterSeg,
         JsonSeg(<< SurfaceUpdate("confirm", ConfirmComponents("Card")),
                    BeginRendering("confirm", "root") >>) >>,
      << TextSeg("Here is the form."), DelimiterSeg, BrokenJson >>,
      << DelimiterSeg, JsonObjectSeg(BeginRendering("confirm", "root")) >>,
      << TextSeg("One moment."), DelimiterSeg >>,
      << >> }
      \cup { << TextSeg("Here you are."), DelimiterSeg, JsonSeg(template) >> :
                template \in UiTemplates }

\* text.strip().endswith(('```', '---', '{')) of line 148: of the segments
\* only the delimiter and the broken JSON text end that way
EndsPartial(response) ==
    /\ response # << >>
    /\ \/ response[Len(response)].seg = "delimiter"
       \/ response[Len(response)] = BrokenJson

\* the first delimiter of a response that has one
FirstDelimiter(response) ==
    CHOOSE k \in DOMAIN response :
        /\ response[k].seg = "delimiter"
        /\ \A j \in 1..(k - 1) : response[j].seg # "delimiter"

\* final parts that leave out the text json.loads rejected
OrchestratorPartsDropRaw(response) ==
    IF \E k \in DOMAIN response : response[k].seg = "delimiter"
    THEN LET k      == FirstDelimiter(response)
             before == SubSeq(response, 1, k - 1)
             after  == SubSeq(response, k + 1, Len(response))
         IN  (IF before # << >> THEN << TextPart(before) >> ELSE << >>)
             \o (IF Len(after) = 1 /\ after[1].seg = "json"
                 THEN [i \in 1..Len(after[1].value) |->
                          create_a2ui_part(after[1].value[i])]
                 ELSE IF Len(after) = 1 /\ after[1].seg = "json_object"
                      THEN << create_a2ui_part(after[1].value) >>
                 ELSE << >>)
    ELSE << TextPart(response) >>

\* the final parts of orchestrator_agent/a2a_server.py (lines 158-191)
OrchestratorParts(response) ==
    IF \E k \in DOMAIN response : response[k].seg = "delimiter"
    THEN LET k      == FirstDelimiter(response)
             before == SubSeq(response, 1, k - 1)
             after  == SubSeq(response, k + 1, Len(response))
         IN  (IF before # << >> THEN << TextPart(before) >> ELSE << >>)
             \o (IF after = << >> THEN << >>
                 ELSE IF Len(after) = 1 /\ after[1].seg = "json"
                      THEN [i \in 1..Len(after[1].value) |->
                               create_a2ui_part(after[1].value[i])]
                 ELSE IF Len(after) = 1 /\ after[1].seg = "json_object"
                      THEN << create_a2ui_part(after[1].value) >>
                 ELSE << TextPart(after) >>)
    ELSE << TextPart(response) >>

\* execute of orchestrator_agent/a2a_server.py (lines 56-205); the runner's
\* answer is any of AgentResponses, delivered in one event
OrchestratorExecute ==
    /\ call = NoCall
    /\ \E parts \in Messages, ext \in BOOLEAN, full_response \in AgentResponses :
        /\ call' = [handler  |-> "orchestrator",
                    message  |-> parts,
                    use_ui   |-> ext,
                    query    |-> OrchestratorFinalQuery(parts),
                    response |-> full_response,
                    output   |->
                        (IF full_response # << >> /\ ~ EndsPartial(full_response)
                         THEN << StatusUpdate("working", << TextPart(full_response) >>, FALSE) >>
                         ELSE << >>)
                        \o << StatusUpdate("input_required",
                                           OrchestratorParts(full_response), FALSE) >>]
        /\ UNCHANGED <<agent_use_ui, selected_time, served>>
        /\ UNCHANGED <<calendarVars, sessionVars>>

-----------------------------------------------------------------------------
(* The REST server of the orchestrator (src/orchestrator_agent/rest_server.py) *)

HTTPException(status_code, detail) ==
    [exception |-> "HTTPException", status_code |-> status_code, detail |-> detail]

\* an exception that is no HTTPException, raised with a message
OtherException(text) == [exception |-> "Exception", text |-> text]

Digits == <<"0", "1", "2", "3", "4", "5", "6", "7", "8", "9">>

\* str(n) of a status code
StrOfStatus(n) ==
    << Digits[(n \div 100) + 1], Digits[((n \div 10) % 10) + 1], Digits[(n % 10) + 1] >>

\* str(e): the message of an exception; of an HTTPException the text
\* "<status_code>: <detail>" that Starlette's __str__ writes, or the empty
\* text of an exception constructed without arguments, according to the
\* installed version
StrOfException(e) ==
    IF e.exception = "HTTPException"
    THEN { StrOfStatus(e.status_code) \o <<":", " ">> \o e.detail, << >> }
    ELSE { e.text }

\* ", ".join(f"{k}={v}" for k, v in context.items())
RECURSIVE JoinItems(_)
JoinItems(d) ==
    IF d = << >> THEN << >>
    ELSE d[1][1] \o <<"=">> \o d[1][2]
         \o (IF Len(d) > 1 THEN <<",", " ">> ELSE << >>) \o JoinItems(Tail(d))

\* lines 113-116
ActionMessage(action_request) ==
    Templates.user_action \o action_request.action
        \o (IF action_request.context # << >>
            THEN Templates.with_context \o JoinItems(action_request.context) ELSE << >>)

SessionIds == { PyNone, << >>, <<"s", "1">> }

ActionRequests ==
    [action : ActionNames, context : Contexts, sessionId : SessionIds]

\* what runner.run_async does with the message: it yields events whose texts
\* add up to a content, or it raises (no session of that id, a failing model
\* call)
RunnerOutcomes ==
    { [ok |-> TRUE, content |-> << >>],
      [ok |-> TRUE, content |-> Texts.hello],
      [ok |-> FALSE, raised |-> OtherException(Templates.session_not_found)] }

\* the body of the try statement of action (lines 106-143): the calls it
\* made, and the value it returned or the exception it raised
ActionBody(action_request, outcome) ==
    IF action_request.sessionId = PyNone \/ action_request.sessionId = << >>
    THEN [events |-> << >>,
          returned |-> FALSE,
          raised |-> HTTPException(400, Templates.session_required)]
    ELSE LET calls == << [event      |-> "run_async",
                          session_id |-> action_request.sessionId,
                          text       |-> ActionMessage(action_request)] >>
         IN  IF outcome.ok
             THEN [events |-> calls, returned |-> TRUE, content |-> outcome.content]
             ELSE [events |-> calls, returned |-> FALSE, raised |-> outcome.raised]

\* POST /api/action (lines 102-147): `except Exception` catches whatever the
\* body raises, HTTPException being an Exception, and raises
\* HTTPException(500, str(e)), which FastAPI answers with that status and
\* detail
RestAction ==
    /\ call = NoCall
    /\ \E action_request \in ActionRequests, outcome \in RunnerOutcomes :
        LET body == ActionBody(action_request, outcome)
        IN  \E detail \in (IF body.returned THEN { << >> } ELSE StrOfException(body.raised)) :
              /\ call' = [handler  |-> "rest_action",
                          message  |-> << action_request >>,
                          use_ui   |-> FALSE,
                          query    |-> IF body.events = << >> THEN << >>
                                       ELSE ActionMessage(action_request),
                          response |-> IF body.returned THEN body.content ELSE << >>,
                          output   |->
                              body.events \o
                              << IF body.returned
                                 THEN [event     |-> "http",
                                       status    |-> 200,
                                       content   |-> body.content,
                                       sessionId |-> action_request.sessionId]
                                 ELSE [event  |-> "http",
                                       status |-> 500,
                                       detail |-> detail] >>]
              /\ UNCHANGED <<agent_use_ui, selected_time, served>>
              /\ UNCHANGED <<calendarVars, sessionVars>>

-----------------------------------------------------------------------------
\* the queries CalendarAgent.stream is called with: what users type and what
\* the calendar executor builds from the messages
StreamQueries == UserTexts \cup { CalendarA2AQuery(parts) : parts \in Messages }

\* one call of root_agent.stream (lines 100-140 of calendar_agent_a2a/agent.py);
\* the agent is a module-level object that serves one call after another
Stream ==
    /\ call.handler \in {"none", "stream"}
    /\ \E q \in StreamQueries :
        LET r == stream(q, selected_time, agent_use_ui)
        IN  /\ call' = [handler  |-> "stream",
                        message  |-> << >>,
                        use_ui   |-> agent_use_ui,
                        query    |-> q,
                        response |-> << >>,
                        output   |-> r.items]
            /\ selected_time' = r.selected_time
            /\ UNCHANGED <<agent_use_ui, served>>
            /\ UNCHANGED <<calendarVars, sessionVars>>

InitAgents ==
    /\ now = [wd |-> 0, tod |-> 0]
    /\ days_ahead = 14
    /\ duration_hours = 1
    /\ calendar = << >>
    /\ pc = "start"
    /\ events = << >>
    /\ available_slots = << >>
    /\ error = "none"
    /\ request = NoRequest
    /\ insert_calls = 0
    /\ booking = NoBooking
    /\ sessions = [s \in Sessions |-> NewSession]
    /\ agent_use_ui \in BOOLEAN
    /\ selected_time = NoSelectedTime
    /\ call = NoCall
    /\ served = << >>

NextAgents ==
    Stream \/ CalendarA2AExecute \/ CalendarExecute \/ OrchestratorExecute \/ RestAction

SpecAgents == InitAgents /\ [][NextAgents]_vars

-----------------------------------------------------------------------------
(* Two conversations with the one agent object.  A2A gives every           *)
(* conversation a context_id, which the executor passes on; root_agent is  *)
(* created once, when the module is imported (line 144).                   *)

ContextIds == {"ctx-A", "ctx-B"}

\* what the users of the two conversations type: a request for the times, a
\* request to book one of the offered slots, a request to book without a
\* slot, and a greeting
ContextQueries ==
    { Texts.available, Texts.book_at, Texts.hello }
      \cup { Concat(<< Keywords.book, <<" ">>, SAMPLE_TIME_SLOTS[i].dateTime >>) :
                i \in DOMAIN SAMPLE_TIME_SLOTS }

\* root_agent.stream(query, context_id) (lines 100-140): the parameter
\* context_id is not read by the body
StreamIn(context_id) ==
    /\ Len(served) < MaxServed
    /\ \E q \in ContextQueries :
        LET r == stream(q, selected_time, agent_use_ui)
        IN  /\ call' = [handler  |-> "stream",
                        message  |-> << >>,
                        use_ui   |-> agent_use_ui,
                        query    |-> q,
                        response |-> << >>,
                        output   |-> r.items]
            /\ selected_time' = r.selected_time
            /\ served' = Append(served, [context_id |-> context_id,
                                         query      |-> q,
                                         content    |-> r.items[Len(r.items)].content])
            /\ UNCHANGED agent_use_ui
            /\ UNCHANGED <<calendarVars, sessionVars>>

NextContexts == \E context_id \in ContextIds : StreamIn(context_id)

SpecContexts == InitAgents /\ [][NextContexts]_vars

-----------------------------------------------------------------------------
(* Properties *)

\* find_available_slots has returned its list
Returned == pc = "returned"

SlotIndices == 1..Len(available_slots)

\* the hour and minute a slot starts at, and its date
SlotHour(slot) == MinuteOfDay(slot.start) \div MinutesPerHour
SlotMinute(slot) == MinuteOfDay(slot.start) % MinutesPerHour
SlotDate(slot) == DateOf(slot.start)

\* half-open interval overlap: slot_start < event_end and slot_end > event_start
Conflicts(slot_start, slot_end, ev) ==
    slot_start < InstantOf(ev.end) /\ slot_end > InstantOf(ev.start)

EventIndices == 1..Len(events)

\* C1: every slot returned by find_slot_in_range starts on the hour at or
\* after 09:00, ends at or before 17:00 of the same date, falls on a
\* Monday-to-Friday date, and overlaps no event of the events list.
C1_SlotWithinBusinessHoursAndFree ==
    Returned => \A i \in SlotIndices :
        LET slot == available_slots[i]
        IN  /\ SlotMinute(slot) = 0
            /\ SlotHour(slot) >= 9
            /\ slot.end <= SlotDate(slot) * MinutesPerDay + 17 * MinutesPerHour
            /\ slot.end = slot.start + duration_hours * MinutesPerHour
            /\ (now.wd + SlotDate(slot)) % 7 \in 0..4
            /\ \A k \in EventIndices : ~ Conflicts(slot.start, slot.end, events[k])

\* a slot was returned on a day that also holds events, one of which blocks
\* an earlier hour of that day
C1_Witness ==
    /\ pc = "returned"
    /\ \E i \in SlotIndices, k \in EventIndices :
         /\ DateOf(InstantOf(events[k].start)) = SlotDate(available_slots[i])
         /\ DateOf(InstantOf(events[k].end)) = SlotDate(available_slots[i])
         /\ InstantOf(events[k].start) < InstantOf(events[k].end)
         /\ InstantOf(events[k].end) <= available_slots[i].start
         /\ SlotHour(available_slots[i]) > 9

\* the near, mid and far zones, in days after today
NearDays == 1..5
MidDays == 6..10
FarDays == 11..14

ZoneOf(day) ==
    CASE day \in NearDays -> 1
      [] day \in MidDays  -> 2
      [] day \in FarDays  -> 3
      [] OTHER            -> 0

\* C2: find_available_slots returns at most 3 slots, at most one from each of
\* the day ranges 1-5, 6-10 and 11-14, in near, mid, far order, and no two of
\* them on the same calendar date.
C2_AtMostOnePerZoneInOrder ==
    Returned =>
        /\ Len(available_slots) <= 3
        /\ \A i \in SlotIndices : ZoneOf(SlotDate(available_slots[i])) \in 1..3
        /\ \A i, j \in SlotIndices :
             i < j => /\ ZoneOf(SlotDate(available_slots[i])) < ZoneOf(SlotDate(available_slots[j]))
                      /\ SlotDate(available_slots[i]) # SlotDate(available_slots[j])

\* two slots were returned although the near range has no free day: the
\* list then starts with the mid slot
C2_Witness ==
    /\ pc = "returned"
    /\ Len(available_slots) = 2
    /\ Len(events) > 0
    /\ ZoneOf(SlotDate(available_slots[1])) = 2
    /\ ZoneOf(SlotDate(available_slots[2])) = 3

\* the candidate interval of a date and hour
CandidateStart(day, hour) == day * MinutesPerDay + hour * MinutesPerHour
CandidateEnd(day, hour) == CandidateStart(day, hour) + duration_hours * MinutesPerHour

\* the hourly starts of a business day that leave room for the meeting
CandidateHours == 9..(17 - duration_hours)

IsBusinessDay(day) == (now.wd + day) % 7 \in 0..4

FreeAt(day, hour) ==
    \A k \in EventIndices : ~ Conflicts(CandidateStart(day, hour), CandidateEnd(day, hour), events[k])

HasFreeStart(day) == IsBusinessDay(day) /\ \E h \in CandidateHours : FreeAt(day, h)

\* C3 (as claimed): find_available_slots returns an empty list if and only if
\* no business day among the days_ahead days after now has a conflict-free
\* business-hour start.
C3_EmptyIffNoFreeDayInWindow ==
    Returned =>
        ((available_slots = << >>) <=> ~ \E day \in 1..days_ahead : HasFreeStart(day))

Min(a, b) == IF a < b THEN a ELSE b
Max(a, b) == IF a > b THEN a ELSE b

IsTimed(ev) == ev.start.fmt = "dateTime" /\ ev.end.fmt = "dateTime"

\* the scanned days on which an event starts or ends, and their neighbours
DaysAround(ev) ==
    { day \in 1..14 : \E b \in {DateOf(InstantOf(ev.start)), DateOf(InstantOf(ev.end))} :
                         day \in (b - 1)..(b + 1) }

\* C4: the scan treats a candidate [s, s+duration) as conflicting with an
\* event [es, ee) exactly when s < ee and s+duration > es; an event that ends
\* at the slot start or starts at the slot end does not block the slot, and
\* every event that shares a stretch of positive length with it does.
C4_ConflictIffOpenIntervalsMeet ==
    Returned =>
        \A k \in EventIndices : IsTimed(events[k]) =>
            \A day \in DaysAround(events[k]), h \in CandidateHours :
                LET s        == CandidateStart(day, h)
                    e        == CandidateEnd(day, h)
                    es       == InstantOf(events[k].start)
                    ee       == InstantOf(events[k].end)
                    conflict == CheckEvents(<<events[k]>>, 1, s, e) = "conflict"
                    free     == CheckEvents(<<events[k]>>, 1, s, e) = "free"
                IN  /\ conflict <=> (s < ee /\ e > es)
                    /\ free <=> ~ conflict
                    /\ (ee = s \/ es = e) => free
                    /\ Max(s, es) < Min(e, ee) => conflict
                    /\ (conflict /\ IsBusinessDay(day)) =>
                          \A i \in SlotIndices : available_slots[i].start # s

\* a slot was returned that one event touches at its start and another at its end
C4_Witness ==
    /\ pc = "returned"
    /\ \E i \in SlotIndices, k1, k2 \in EventIndices :
         /\ IsTimed(events[k1]) /\ IsTimed(events[k2])
         /\ InstantOf(events[k1].start) < InstantOf(events[k1].end)
         /\ InstantOf(events[k1].end) = available_slots[i].start
         /\ InstantOf(events[k2].start) = available_slots[i].end
         /\ InstantOf(events[k2].start) < InstantOf(events[k2].end)

ZoneDays(z) == CASE z = 1 -> NearDays [] z = 2 -> MidDays [] OTHER -> FarDays

FreeDays(z) == { day \in ZoneDays(z) : HasFreeStart(day) }

FirstOf(S) == CHOOSE x \in S : \A y \in S : x <= y

SlotsOfZone(z) == { i \in SlotIndices : ZoneOf(SlotDate(available_slots[i])) = z }

\* C5: within each zone the slot returned is the earliest conflict-free hourly
\* start of the first business day of the zone that has one; a day whose 09:00
\* hour is blocked but that has a later free hour yields that later hour and is
\* not skipped.
C5_EarliestStartOfFirstFreeDay ==
    Returned =>
        \A z \in 1..3 :
            IF FreeDays(z) = {}
            THEN SlotsOfZone(z) = {}
            ELSE LET day  == FirstOf(FreeDays(z))
                     hour == FirstOf({ h \in CandidateHours : FreeAt(day, h) })
                 IN  /\ Cardinality(SlotsOfZone(z)) = 1
                     /\ \A i \in SlotsOfZone(z) :
                          available_slots[i].start = CandidateStart(day, hour)

\* the near slot is the 10:00 start of a day whose 09:00 start an event blocks
C5_Witness ==
    /\ pc = "returned"
    /\ \E i \in SlotIndices :
         /\ ZoneOf(SlotDate(available_slots[i])) = 1
         /\ SlotHour(available_slots[i]) = 10
         /\ ~ FreeAt(SlotDate(available_slots[i]), 9)
         /\ \E later \in ZoneDays(1) :
              later > SlotDate(available_slots[i]) /\ HasFreeStart(later) /\ FreeAt(later, 9)

\* C6: with no events at all, whatever the weekday of now, find_available_slots
\* returns exactly 3 slots, one in each of the near, mid and far zones, on
\* three distinct dates, each starting at 09:00.
C6_NoEventsGivesThreeNineOClockSlots ==
    (Returned /\ events = << >>) =>
        /\ Len(available_slots) = 3
        /\ \A i \in SlotIndices :
             /\ ZoneOf(SlotDate(available_slots[i])) = i
             /\ SlotHour(available_slots[i]) = 9
             /\ SlotMinute(available_slots[i]) = 0
             /\ IsBusinessDay(SlotDate(available_slots[i]))
        /\ Cardinality({ SlotDate(available_slots[i]) : i \in SlotIndices }) = 3

\* the call returned on an empty calendar when today is a Saturday
C6_Witness ==
    /\ pc = "returned"
    /\ calendar = << >>
    /\ events = << >>
    /\ now.wd = 5
    /\ Len(available_slots) = 3

\* every hour from 09:00 to 17:00 of the day lies inside an event of the calendar
BookedAllDay(day) ==
    \A h \in 9..16 :
        \E k \in 1..Len(calendar) :
            /\ IsTimed(calendar[k])
            /\ InstantOf(calendar[k].start) <= CandidateStart(day, h)
            /\ InstantOf(calendar[k].end) >= CandidateStart(day, h + 1)

\* C7 (as claimed): if every business day of the window is covered by events
\* from 09:00 to 17:00, find_available_slots returns the empty list.
C7_FullyBookedGivesEmpty ==
    (Returned /\ \A day \in 1..14 : IsBusinessDay(day) => BookedAllDay(day))
        => available_slots = << >>

\* C8: the candidate starts of a business day are the hours 9 .. 17-d for a
\* duration of d hours (9 .. 16 for one hour): no returned slot starts later,
\* and a day whose only free start is the last one, 17-d, yields that slot.
C8_LastStartIsCloseMinusDuration ==
    Returned =>
        /\ \A i \in SlotIndices : SlotHour(available_slots[i]) \in 9..(17 - duration_hours)
        /\ \A z \in 1..3 : \A day \in ZoneDays(z) :
             ( /\ IsBusinessDay(day)
               /\ FreeAt(day, 17 - duration_hours)
               /\ \A h \in CandidateHours : h < 17 - duration_hours => ~ FreeAt(day, h)
               /\ \A earlier \in ZoneDays(z) : earlier < day => ~ HasFreeStart(earlier) )
             => \E i \in SlotIndices :
                    /\ available_slots[i].start = CandidateStart(day, 17 - duration_hours)
                    /\ available_slots[i].end = CandidateStart(day, 17)

\* a slot was returned at the last start of a day whose earlier starts are all blocked
C8_Witness ==
    /\ pc = "returned"
    /\ \E i \in SlotIndices :
         /\ SlotHour(available_slots[i]) = 17 - duration_hours
         /\ available_slots[i].end = CandidateStart(SlotDate(available_slots[i]), 17)
         /\ \A h \in CandidateHours :
              h < 17 - duration_hours => ~ FreeAt(SlotDate(available_slots[i]), h)

\* C9 (as claimed): every slot returned by find_available_slots(days_ahead = d)
\* falls on a day strictly after today and no later than d days after now.
C9_SlotsInsideFetchedWindow ==
    Returned =>
        \A i \in SlotIndices :
            /\ SlotDate(available_slots[i]) >= 1
            /\ SlotDate(available_slots[i]) <= days_ahead

\* C10 (as claimed): the write request built by book_appointment never
\* carries a timeZone field alongside its start or end timestamp.
C10_NoTimeZoneField ==
    request.kind = "insert" =>
        /\ "timeZone" \notin DOMAIN request.start
        /\ "timeZone" \notin DOMAIN request.end

\* book_appointment was called: the session ended in "booked" or with the
\* insert's exception
BookCalled == pc = "booked" \/ (pc = "raised" /\ error = "HttpError")

\* C11: each call to book_appointment issues exactly one insert call, never a
\* second one after a failure, and reports status "confirmed" only when that
\* one call returned without error.
C11_OneInsertPerCallConfirmedOnlyOnSuccess ==
    /\ insert_calls = (IF BookCalled THEN 1 ELSE 0)
    /\ booking.status = "confirmed" =>
           /\ pc = "booked"
           /\ error = "none"
           /\ insert_calls = 1
           /\ Len(calendar) > 0
    /\ error = "HttpError" => booking = NoBooking

\* a book_appointment call whose insert raised: one call was issued, nothing
\* was confirmed
C11_Witness ==
    /\ pc = "raised"
    /\ error = "HttpError"
    /\ request.kind = "insert"
    /\ insert_calls = 1
    /\ booking = NoBooking

\* the sessions that booked the event ev
BookedWith(ev) == { s \in Sessions : sessions[s].pc = "booked" /\ sessions[s].event = ev }

\* C12: book_appointment writes without re-checking availability: every
\* session whose insert returned has its own event in the calendar, so two
\* sessions that scanned the same snapshot and booked the same slot leave two
\* events on that slot.
C12_EveryBookingWritesItsOwnEvent ==
    \A s \in Sessions :
        sessions[s].pc = "booked" =>
            Copies(calendar, sessions[s].event) >= Cardinality(BookedWith(sessions[s].event))

\* scan(A), scan(B), book(A), book(B): both sessions were offered the same
\* list, both booked the same slot of it, and the calendar holds two events
\* on that slot
C12_Witness ==
    /\ sessions["A"].pc = "booked"
    /\ sessions["B"].pc = "booked"
    /\ sessions["A"].slots = sessions["B"].slots
    /\ sessions["A"].event = sessions["B"].event
    /\ \E i \in 1..Len(sessions["A"].slots) :
         /\ InstantOf(sessions["A"].event.start) =
                sessions["A"].slots[i].start
                    - (IF sessions["A"].slots[i].tz = "" THEN sessions["A"].event.start.off ELSE 0)
                      * MinutesPerHour
    /\ Copies(calendar, sessions["A"].event) = 2

\* an event whose start or end string datetime.fromisoformat rejects
Unparseable(ev) ==
    ParseIso(ev.start).kind = "ValueError" \/ ParseIso(ev.end).kind = "ValueError"

\* C13 (as claimed): when the events list passed to find_slot_in_range holds
\* an event with an unparseable start or end, the scan of every range ends
\* with an error: it returns neither a slot nor the "no slot" result, wherever
\* the event stands in the list and whatever the other events are.
C13_UnparseableEventEndsEveryScanWithError ==
    (pc # "start" /\ \E k \in EventIndices : Unparseable(events[k])) =>
        \A i \in 1..Len(ranges) :
            find_slot_in_range(events, now.tod, ranges[i][1], ranges[i][2],
                               duration_hours).kind = "error"

-----------------------------------------------------------------------------
(* Properties of the agents and executors *)

\* the content of the item that ended a stream call
FinalContent == call.output[Len(call.output)].content

\* the A2UI arrays of a response
ArraysOf(response) ==
    { response[k].value : k \in { j \in DOMAIN response : response[j].seg = "json" } }

\* the array holds a surfaceUpdate, then a dataModelUpdate, then a
\* beginRendering, all of one surface
InCreationOrder(array) ==
    \E i, j, l \in DOMAIN array :
        /\ i < j /\ j < l
        /\ "surfaceUpdate" \in DOMAIN array[i]
        /\ "dataModelUpdate" \in DOMAIN array[j]
        /\ "beginRendering" \in DOMAIN array[l]
        /\ array[j].dataModelUpdate.surfaceId = array[i].surfaceUpdate.surfaceId
        /\ array[l].beginRendering.surfaceId = array[i].surfaceUpdate.surfaceId

\* C14 (as claimed): every A2UI array that CalendarAgent.stream emits for a
\* surface-creation turn (time-slot list, booking form) holds a
\* surfaceUpdate, then a dataModelUpdate, then a beginRendering for that
\* surface, in that order.
C14_StreamArraysInCreationOrder ==
    call.handler = "stream" =>
        \A array \in ArraysOf(FinalContent) : InCreationOrder(array)

\* the query contains none of the trigger keywords of stream
NoTrigger(q) ==
    /\ ~ Contains(Keywords.available, Lower(q))
    /\ ~ Contains(Keywords.schedule, Lower(q))
    /\ ~ Contains(Keywords.appointment, Lower(q))
    /\ ~ Contains(Keywords.book, Lower(q))
    /\ ~ Contains(Keywords.Please_book, q)
    /\ ~ Contains(SUBMIT_BOOKING, q)

FallbackPrompt ==
    << TextSeg("I can help you schedule an appointment. Would you like to see available times?") >>

\* C19: for every query, CalendarAgent.stream yields exactly one item with
\* is_task_complete = True, which is the last item it yields; for a query
\* with no trigger keyword that item is the fallback prompt offering to show
\* the available times.
C19_OneCompleteItemLastFallbackOtherwise ==
    call.handler = "stream" =>
        /\ Len(call.output) >= 1
        /\ \A i \in DOMAIN call.output :
               call.output[i].is_task_complete <=> i = Len(call.output)
        /\ NoTrigger(call.query) => FinalContent = FallbackPrompt

\* stream served a query without any trigger keyword and yielded the single
\* complete item
C19_Witness ==
    /\ call.handler = "stream"
    /\ call.query = Texts.hello
    /\ NoTrigger(call.query)
    /\ Len(call.output) = 1
    /\ call.output[1].is_task_complete
    /\ FinalContent = FallbackPrompt

\* the message a click on the Select button of the i-th offered slot sends
SelectSlotMessage(i) ==
    << DataPart(<< <<Keys.userAction,
                     << <<Keys.actionName, SELECT_TIME_SLOT>>,
                        <<Keys.context, << <<Keys.dateTime, SAMPLE_TIME_SLOTS[i].dateTime>> >> >> >> >> >>) >>

\* C20 (as claimed): the query the calendar executor builds for a
\* SELECT_TIME_SLOT action with the dateTime of an offered slot is handled by
\* CalendarAgent.stream as the booking-form stage: the response is the booking
\* form for that slot, not the time-slot list again.
C20_SelectQueryGivesBookingForm ==
    \A i \in DOMAIN SAMPLE_TIME_SLOTS :
        (/\ call.handler = "stream"
         /\ agent_use_ui
         /\ call.query = CalendarA2AQuery(SelectSlotMessage(i)))
        => /\ ArraysOf(FinalContent) = { << get_booking_form_ui(SAMPLE_TIME_SLOTS[i]) >> }
           /\ << get_time_slot_ui >> \notin ArraysOf(FinalContent)

\* the data parts an executor forwarded to the client
ForwardedData ==
    UNION { { call.output[e].parts[p].data :
                p \in { q \in DOMAIN call.output[e].parts :
                           call.output[e].parts[q].kind = "data" } } :
            e \in DOMAIN call.output }

\* the ids a surfaceUpdate declares
DeclaredIds(msg) ==
    { msg.surfaceUpdate.components[c].id : c \in DOMAIN msg.surfaceUpdate.components }

\* the array holds a beginRendering whose root is not declared by the latest
\* surfaceUpdate before it for the same surface
HasDanglingRoot(array) ==
    \E l \in DOMAIN array :
        /\ "beginRendering" \in DOMAIN array[l]
        /\ LET updates == { i \in 1..(l - 1) :
                              /\ "surfaceUpdate" \in DOMAIN array[i]
                              /\ array[i].surfaceUpdate.surfaceId =
                                     array[l].beginRendering.surfaceId }
           IN  \/ updates = { }
               \/ array[l].beginRendering.root \notin
                      DeclaredIds(array[CHOOSE i \in updates : \A j \in updates : j <= i])

\* C15 (as claimed): when the A2UI array of an agent response holds a
\* beginRendering whose root id is not declared in the latest surfaceUpdate
\* for the same surfaceId, the executor rejects the turn and forwards none of
\* the array's messages to the client.
C15_DanglingRootIsRejected ==
    call.handler = "orchestrator" =>
        \A array \in ArraysOf(call.response) :
            HasDanglingRoot(array) =>
                \A m \in DOMAIN array : array[m] \notin ForwardedData

\* the component kinds of the catalogue: containers, text, button, text
\* input, card, icon, choice, row and column
ComponentVocabulary ==
    { "Column", "Row", "List", "Card", "Text", "Button", "TextField", "Icon",
      "MultipleChoice" }

\* a surfaceUpdate with a component of a kind outside the vocabulary
HasUnknownKind(msg) ==
    /\ "surfaceUpdate" \in DOMAIN msg
    /\ \E c \in DOMAIN msg.surfaceUpdate.components :
           msg.surfaceUpdate.components[c].component \notin ComponentVocabulary

\* C16 (as claimed): a surfaceUpdate with a component whose kind is outside
\* the fixed component vocabulary (such as UnknownType) fails validation and
\* is never forwarded to the client as a data part.
C16_UnknownKindIsNeverForwarded ==
    call.handler = "orchestrator" =>
        \A msg \in ForwardedData : ~ HasUnknownKind(msg)

RecognizedActions ==
    { SELECT_TIME_SLOT, SUBMIT_BOOKING, submit_vehicle_info, schedule_appraisal }

\* the inbound message is one data part whose userAction envelope is
\* {actionName: action, context: ctx}
IsActionMessage(message, action, ctx) ==
    message = << DataPart(<< <<Keys.userAction,
                                << <<Keys.actionName, action>>, <<Keys.context, ctx>> >> >> >>) >>

\* C17 (as claimed): in every executor an inbound userAction whose action name
\* is not one of the recognized names is no error: the turn completes
\* normally and the query handed to the agent names that action.
C17_UnknownActionIsForwarded ==
    \A action \in ActionNames \ RecognizedActions, ctx \in Contexts :
        (/\ call.handler \in {"calendar_a2a", "calendar", "orchestrator"}
         /\ IsActionMessage(call.message, action, ctx))
        => /\ Len(call.output) >= 1
           /\ Contains(action, call.query)

\* the vehicle-info query for the values of a context
VehicleInfoQuery(ctx) ==
    Concat(<< Templates.vehicle_info, Get(ctx, Keys.year, << >>), <<" ">>,
              Get(ctx, Keys.make, << >>), <<" ">>, Get(ctx, Keys.model, << >>),
              <<",", " ">>, Get(ctx, Keys.mileage, << >>), Templates.miles,
              IF HasKey(ctx, Keys.condition) THEN Get(ctx, Keys.condition, << >>) ELSE Values.good,
              Templates.condition >>)

\* C18 (as claimed): the orchestrator executor decodes an inbound envelope
\* {actionName: submit_vehicle_info, context: {year, make, model, mileage,
\* condition}} into the vehicle-info query with those five values, condition
\* being "good" only when the context has none.
C18_VehicleInfoEnvelopeDecoded ==
    \A ctx \in { c \in Contexts : HasKey(c, Keys.year) } :
        (/\ call.handler = "orchestrator"
         /\ IsActionMessage(call.message, submit_vehicle_info, ctx))
        => call.query = VehicleInfoQuery(ctx)

\* the message a click on the Book Appointment button of the booking form
\* sends, with the context ctx
SubmitBookingMessage(ctx) ==
    << DataPart(<< <<Keys.userAction,
                     << <<Keys.actionName, SUBMIT_BOOKING>>, <<Keys.context, ctx>> >> >> >>) >>

BookedMessage ==
    << TextSeg("Your appointment has been booked successfully! You'll receive a confirmation email shortly.") >>

\* C21 (as claimed): the query the calendar executor builds for a
\* SUBMIT_BOOKING action is classified by CalendarAgent.stream as the
\* booking-confirmation stage (the "appointment has been booked" message),
\* not as show-availability or booking-form.
C21_SubmitQueryGivesConfirmation ==
    \A ctx \in Contexts :
        (/\ call.handler = "stream"
         /\ call.query = CalendarA2AQuery(SubmitBookingMessage(ctx)))
        => /\ Stage(call.query) = "confirmation"
           /\ FinalContent = BookedMessage

\* self.selected_time of an agent that served, of the first n calls of the
\* log, those of context_id alone
RECURSIVE OwnSelected(_, _, _)
OwnSelected(log, context_id, n) ==
    IF n = 0 THEN NoSelectedTime
    ELSE IF log[n].context_id = context_id
         THEN stream(log[n].query, OwnSelected(log, context_id, n - 1), agent_use_ui).selected_time
         ELSE OwnSelected(log, context_id, n - 1)

\* the final content stream gives for a query, self.selected_time being
\* `selected`
ContentFor(query, selected) ==
    LET items == stream(query, selected, agent_use_ui).items
    IN  items[Len(items)].content

\* C22 (as claimed): the response CalendarAgent.stream gives to a session
\* depends only on that session's own queries: under any interleaving of the
\* queries of two context_ids, every response is the one the session would
\* have got had the other session's queries never been made.
C22_ResponseDependsOnOwnQueriesOnly ==
    \A k \in DOMAIN served :
        served[k].content =
            ContentFor(served[k].query, OwnSelected(served, served[k].context_id, k - 1))

\* the parts of the status update that closed the turn
FinalParts == call.output[Len(call.output)].parts

\* the text {},{},...,{} of n empty objects, and the JSON array of them
RECURSIVE ObjectsText(_)
ObjectsText(n) ==
    IF n = 0 THEN << >>
    ELSE IF n = 1 THEN <<"{", "}">>
    ELSE <<"{", "}", ",">> \o ObjectsText(n - 1)
ArrayText(n) == <<"[">> \o ObjectsText(n) \o <<"]">>

\* the positions at which the delimiter begins in a text
DelimiterAt(text) ==
    { i \in 0..(Len(text) - Len(delimiter)) :
        SubSeq(text, i + 1, i + Len(delimiter)) = delimiter }

\* the parts the claim describes for a leading text and an array of messages
TextThenData(lead, array) ==
    (IF lead # << >> THEN << TextPart(lead) >> ELSE << >>)
        \o [j \in DOMAIN array |-> DataPart(array[j])]

\* C23, calendar A2A executor: the response is a text
C23_CalendarA2A ==
    LET r == call.response
    IN  /\ DelimiterAt(r) = { } =>
              /\ Len(FinalParts) = 1
              /\ FinalParts[1].kind = "text"
        /\ \A i \in DelimiterAt(r), n \in 0..Len(r) :
              (/\ \A j \in DelimiterAt(r) : i <= j
               /\ NoSpace(SubSeq(r, i + Len(delimiter) + 1, Len(r))) = ArrayText(n))
              => FinalParts = TextThenData(Strip(SubSeq(r, 1, i)), [j \in 1..n |-> << >>])

\* C23, orchestrator executor: the response is a sequence of segments
C23_Orchestrator ==
    LET r == call.response
        d == { k \in DOMAIN r : r[k].seg = "delimiter" }
    IN  /\ d = { } =>
              /\ Len(FinalParts) = 1
              /\ FinalParts[1].kind = "text"
        /\ \A k \in d :
              (/\ \A j \in d : k <= j
               /\ Len(r) = k + 1
               /\ r[k + 1].seg = "json")
              => FinalParts = TextThenData(SubSeq(r, 1, k - 1), r[k + 1].value)

\* C23: in the orchestrator and calendar A2A executors, a response without
\* the ---a2ui_JSON--- delimiter yields exactly one text part and no data
\* part; a response with the delimiter followed by a JSON array of n messages
\* yields the leading text, stripped of the white space around it, as the
\* first part when it is not empty, and then exactly n data parts in array
\* order.
C23_PartsFollowTheDelimiter ==
    /\ call.handler = "calendar_a2a" => C23_CalendarA2A
    /\ call.handler = "orchestrator" => C23_Orchestrator

\* the calendar A2A executor split a response with a leading text and an
\* array of two messages into a text part and two data parts
C23_Witness ==
    /\ call.handler = "calendar_a2a"
    /\ call.query = Texts.ui_two
    /\ Len(FinalParts) = 3
    /\ FinalParts[1].kind = "text"
    /\ FinalParts[2].kind = "data"
    /\ FinalParts[3].kind = "data"

\* the HTTP response that ended a REST call
HttpResponse == call.output[Len(call.output)]

\* the REST call was made without a session id
WithoutSessionId ==
    /\ call.handler = "rest_action"
    /\ call.message[1].sessionId \in { PyNone, << >> }

\* C24 (as claimed): a POST /api/action request without a sessionId is
\* answered with HTTP status 400 and detail "Session ID required for
\* actions", and the agent runner is not invoked for it.
C24_ActionWithoutSessionIs400 ==
    WithoutSessionId =>
        /\ HttpResponse.status = 400
        /\ HttpResponse.detail = Templates.session_required
        /\ \A e \in DOMAIN call.output : call.output[e].event # "run_async"

\* C25 (as claimed): when the client did not request the A2UI extension
\* (use_ui is false, text-only mode), the executor sends only text parts: no
\* A2UI data part is emitted, even when the agent response contains the
\* ---a2ui_JSON--- delimiter and a valid JSON array.
C25_TextOnlyModeSendsNoDataPart ==
    (/\ call.handler \in {"calendar_a2a", "calendar", "orchestrator"}
     /\ ~ call.use_ui)
    => ForwardedData = { }

\* C26 (as claimed): the 'start' and 'end' strings of a slot returned by
\* find_slot_in_range always carry an explicit UTC offset, whatever the
\* events list holds (the empty list included).
C26_SlotStringsCarryUtcOffset ==
    Returned => \A i \in SlotIndices : available_slots[i].tz = "+00:00"

\* the data parts of a message that carry a userAction
ActionParts(message) ==
    { p \in DOMAIN message :
        /\ message[p].kind = "data"
        /\ HasKey(message[p].data, Keys.userAction) }

\* the inbound action is SUBMIT_BOOKING: the last userAction of the message
\* names it under actionName
SubmitsBooking(message) ==
    /\ ActionParts(message) # { }
    /\ LET p == CHOOSE q \in ActionParts(message) : \A o \in ActionParts(message) : o <= q
       IN  Get(Get(message[p].data, Keys.userAction, << >>), Keys.actionName, PyNone)
               = SUBMIT_BOOKING

LeadPart(lead) == IF lead # << >> THEN << TextPart(lead) >> ELSE << >>

\* the turn ended with a status update, as every turn does
ClosedNormally ==
    /\ call.output # << >>
    /\ call.output[Len(call.output)].event = "status"
    /\ call.output[Len(call.output)].state \in {"input_required", "completed"}

\* json_string.strip().lstrip("```json").rstrip("```").strip(): the text
\* without the white space and the Markdown code fence around it
Unfenced(text) ==
    Strip(RStripChars(LStripChars(Strip(text), {Backtick, "j", "s", "o", "n"}),
                      {Backtick}))

\* the segments after the delimiter are the text of one JSON value
IsJsonValue(after) ==
    Len(after) = 1 /\ after[1].seg \in {"json", "json_object"}

\* C28 (as claimed): when the text after the ---a2ui_JSON--- delimiter is not
\* valid JSON, the orchestrator and calendar A2A executors emit no data part
\* for that turn: they send the leading text (if non-empty) followed by one
\* text part holding the raw undecoded text, and close the turn normally.
C28_InvalidJsonIsSentAsRawText ==
    /\ call.handler = "calendar_a2a" =>
          \A i \in DelimiterAt(call.response) :
              LET after == SubSeq(call.response, i + Len(delimiter) + 1, Len(call.response))
              IN  (/\ \A j \in DelimiterAt(call.response) : i <= j
                   /\ ~ LoadsText(after).ok)
                  => /\ ForwardedData = { }
                     /\ FinalParts = LeadPart(Strip(SubSeq(call.response, 1, i)))
                                         \o << TextPart(after) >>
                     /\ ClosedNormally
    /\ call.handler = "orchestrator" =>
          \A k \in DOMAIN call.response :
              LET after == SubSeq(call.response, k + 1, Len(call.response))
              IN  (/\ call.response[k].seg = "delimiter"
                   /\ \A j \in 1..(k - 1) : call.response[j].seg # "delimiter"
                   /\ ~ IsJsonValue(after))
                  => /\ ForwardedData = { }
                     /\ FinalParts = LeadPart(SubSeq(call.response, 1, k - 1))
                                         \o << TextPart(after) >>
                     /\ ClosedNormally

\* C28 (amended): when the text after the delimiter, stripped of white space
\* and of a Markdown code fence, is not empty and not valid JSON, the
\* executors emit no data part: they send the leading text (if non-empty)
\* followed by one text part holding the raw text after the delimiter, and
\* close the turn normally; when nothing but white space follows the
\* delimiter they send the leading text alone.
C28_RejectedJsonIsSentAsRawText ==
    /\ call.handler = "calendar_a2a" =>
          \A i \in DelimiterAt(call.response) :
              LET after == SubSeq(call.response, i + Len(delimiter) + 1, Len(call.response))
                  lead  == Strip(SubSeq(call.response, 1, i))
              IN  (\A j \in DelimiterAt(call.response) : i <= j)
                  => /\ Strip(after) = << >> => FinalParts = LeadPart(lead)
                     /\ (Strip(after) # << >> /\ ~ LoadsText(Unfenced(after)).ok)
                            => FinalParts = LeadPart(lead) \o << TextPart(after) >>
                     /\ ClosedNormally
    /\ call.handler = "orchestrator" =>
          \A k \in DOMAIN call.response :
              LET after == SubSeq(call.response, k + 1, Len(call.response))
                  lead  == SubSeq(call.response, 1, k - 1)
              IN  (/\ call.response[k].seg = "delimiter"
                   /\ \A j \in 1..(k - 1) : call.response[j].seg # "delimiter")
                  => /\ after = << >> => FinalParts = LeadPart(lead)
                     /\ (after # << >> /\ ~ IsJsonValue(after))
                            => FinalParts = LeadPart(lead) \o << TextPart(after) >>
                     /\ ClosedNormally

\* the calendar A2A executor met text after the delimiter that json.loads
\* rejects, and sent the leading text and the raw text as two text parts
C28_Witness ==
    /\ call.handler = "calendar_a2a"
    /\ call.query = Texts.ui_broken
    /\ Len(FinalParts) = 2
    /\ FinalParts[1].kind = "text"
    /\ FinalParts[2] = TextPart(<<" ", "o", "o", "p", "s">>)
    /\ ClosedNormally

\* s.split(sep) for a separator of one character
RECURSIVE SplitAt(_, _)
SplitAt(s, sep) ==
    IF \E k \in DOMAIN s : s[k] = sep
    THEN LET k == CHOOSE i \in DOMAIN s : s[i] = sep /\ \A j \in 1..(i - 1) : s[j] # sep
         IN  << SubSeq(s, 1, k - 1) >> \o SplitAt(SubSeq(s, k + 1, Len(s)), sep)
    ELSE << s >>

\* the keys a path such as /slot1/display names, one after the other
PathKeys(path) == Tail(SplitAt(path, "/"))

\* the messages of an array that have the key `kind` and speak of a surface
MessagesOf(array, kind, surfaceId) ==
    { m \in DOMAIN array : kind \in DOMAIN array[m] /\ array[m][kind].surfaceId = surfaceId }

\* the dataModelUpdate holds a value under the keys of the path
Populates(update, path) ==
    LET ks == PathKeys(path)
    IN  /\ Len(path) > 0 /\ path[1] = "/"
        /\ Len(ks) = 2
        /\ \E e \in DOMAIN update.contents :
               /\ update.contents[e].key = ks[1]
               /\ \E v \in DOMAIN update.contents[e].valueMap :
                      update.contents[e].valueMap[v] = ks[2]

\* every child names a declared component, the root is declared, and every
\* path is populated by the dataModelUpdate of the surface
WellReferenced(array) ==
    \A u \in { m \in DOMAIN array : "surfaceUpdate" \in DOMAIN array[m] } :
        LET surface == array[u].surfaceUpdate
            ids     == DeclaredIds(array[u])
        IN  /\ \A c \in DOMAIN surface.components :
                 /\ \A ch \in DOMAIN surface.components[c].children :
                        surface.components[c].children[ch] \in ids
                 /\ \A p \in DOMAIN surface.components[c].paths :
                        \E d \in MessagesOf(array, "dataModelUpdate", surface.surfaceId) :
                            Populates(array[d].dataModelUpdate, surface.components[c].paths[p])
            /\ MessagesOf(array, "beginRendering", surface.surfaceId) # { }
            /\ \A b \in MessagesOf(array, "beginRendering", surface.surfaceId) :
                   array[b].beginRendering.root \in ids

\* C29: in every UI template of the calendar and vehicle-intake agents, each
\* child reference names a component id declared in the same surfaceUpdate,
\* the beginRendering root is a declared id of that surfaceUpdate, and every
\* data-bound path used by a component is populated by the template's
\* dataModelUpdate.
C29_TemplatesAreWellReferenced ==
    call.handler = "orchestrator" =>
        \A array \in ArraysOf(call.response) \cap UiTemplates : WellReferenced(array)

\* the agent answered with the three-slot template, whose child references
\* and paths all resolve, and the executor forwarded its three messages
C29_Witness ==
    /\ call.handler = "orchestrator"
    /\ ArraysOf(call.response) = { TimeSlotsThree }
    /\ WellReferenced(TimeSlotsThree)
    /\ Len(FinalParts) = 4

\* the parts of a message that set the query: the text parts and the data
\* parts with a userAction
QueryParts(message) ==
    { p \in DOMAIN message : message[p].kind = "text" } \cup ActionParts(message)

\* s begins with prefix
StartsWith(s, prefix) ==
    Len(s) >= Len(prefix) /\ SubSeq(s, 1, Len(prefix)) = prefix

\* C30: the query the orchestrator executor hands to the agent runner is
\* never empty: it is the query taken from the message parts (the text, or
\* the sentence derived from the userAction, of the last part that has one),
\* else the request context's user input, else the default greeting "Hello,
\* I'd like to trade in my vehicle.".
C30_OrchestratorQueryNeverEmpty ==
    call.handler = "orchestrator" =>
        /\ call.query # << >>
        /\ IF QueryParts(call.message) # { }
           THEN LET p == CHOOSE q \in QueryParts(call.message) :
                             \A o \in QueryParts(call.message) : o <= q
                IN  IF call.message[p].kind = "data"
                    THEN \/ StartsWith(call.query, Templates.vehicle_info)
                         \/ StartsWith(call.query, Templates.performed)
                    ELSE IF call.message[p].text # << >>
                    THEN call.query = call.message[p].text
                    ELSE IF JoinLines(TextsOf(call.message)) # << >>
                    THEN call.query = JoinLines(TextsOf(call.message))
                    ELSE call.query = Templates.hello
           ELSE call.query = Templates.hello

\* the orchestrator served a message whose only part is an empty text, and
\* handed the default greeting to the runner
C30_Witness ==
    /\ call.handler = "orchestrator"
    /\ call.message = << TextPart(<< >>) >>
    /\ call.query = Templates.hello

=============================================================================
